---------------------------- MODULE Spec2Model ----------------------------
(***************************************************************************)
(* Worker scheduler and immediate-run tasks of the SaaS directory          *)
(* submission agent (backend/app/workers/submission_worker.py,             *)
(* backend/app/services/submission_service.py,                             *)
(* backend/app/routes/submissions.py), the submission pipeline             *)
(* (backend/app/automation/browser.py) and the form detection service      *)
(* (backend/app/automation/form_detector.py).                              *)
(*                                                                         *)
(* Timestamps are whole hours.  An optional value (a nullable column, a    *)
(* Python None) is a sequence: <<>> is None, <<x>> is x.  A JSON object    *)
(* of field descriptions is the set of its keys, {} the empty dict.        *)
(*                                                                         *)
(* A row of directory_submissions carries the columns the specification's  *)
(* initial state gives it; the service writes a column only to rows that   *)
(* carry it.                                                               *)
(***************************************************************************)
EXTENDS Integers, Sequences, FiniteSets, TLC

\* ---------------------------------------------------------------- bounds
NumJobs == 2
MaxRequests == 1
MaxTime == 2
MaxTokens == 4
MaxFields == 2
MaxElements == 2

\* ------------------------------------------------------ program constants
\* Column(Integer, default=3)
DEFAULT_MAX_ATTEMPTS == 3
\* timedelta(hours=1)
RETRY_AFTER == 1

Jobs == 1..NumJobs
Requests == 1..MaxRequests
Times == 0..MaxTime

None == <<>>
Some(x) == <<x>>

\* SubmissionStatus values the scheduler and the executor write
PENDING == "pending"
IN_PROGRESS == "in_progress"
SUBMITTED == "submitted"
FAILED == "failed"
REJECTED == "rejected"

\* result["error"] of the CAPTCHA abort and of the navigation abort
CAPTCHA_ERROR == "CAPTCHA detected - requires manual intervention"
LOAD_ERROR == "Failed to load page"

\* simulate_submission's failure reason, under the key "error_message"
DEMO_CAPTCHA_MESSAGE == "CAPTCHA detected - manual intervention required"

\* what a pipeline run hands back, as the scheduler reads it: result["success"],
\* result.get("error"), result.get("detected_fields"),
\* result.get("filled_fields"), result.get("screenshot_path"); None where
\* the result has no such key.  error_message is the demo simulator's key.
\* A run that submitted (either mode)
SubmittedResult ==
    [success |-> TRUE, error |-> None, error_message |-> None,
     detected_fields |-> Some({"name"}), filled_fields |-> Some({"#name"}),
     screenshot_path |-> Some("screenshots/result.png")]

\* execute_submission stopped by a CAPTCHA after filling the form
CaptchaResult ==
    [success |-> FALSE, error |-> Some(CAPTCHA_ERROR), error_message |-> None,
     detected_fields |-> Some({"name"}), filled_fields |-> Some({"#name"}),
     screenshot_path |-> Some("screenshots/submission.png")]

\* execute_submission stopped by a page that did not load
LoadFailedResult ==
    [success |-> FALSE, error |-> Some(LOAD_ERROR), error_message |-> None,
     detected_fields |-> Some({}), filled_fields |-> Some({}),
     screenshot_path |-> None]

\* execute_full_submission whose simulated submit failed
DemoFailedResult ==
    [success |-> FALSE, error |-> None,
     error_message |-> Some(DEMO_CAPTCHA_MESSAGE),
     detected_fields |-> Some({"name"}), filled_fields |-> Some({"name"}),
     screenshot_path |-> Some("screenshots/demo.png")]

PipelineResults ==
    {SubmittedResult, CaptchaResult, LoadFailedResult, DemoFailedResult}

\* str(e) of an exception raised while a job is processed
ExceptionMessages == {"X", ""}

VARIABLES
    jobs,           \* the directory_submissions table, committed rows
    now,            \* datetime.utcnow()
    max_concurrent, \* SubmissionWorker.max_concurrent, from the settings
    is_running,     \* SubmissionWorker.is_running
    current_tasks,  \* SubmissionWorker.current_tasks
    wpc,            \* position of the start() coroutine
    wbatch,         \* submissions of the pass not yet processed
    wjob,           \* submission_id of the running _process_submission
    wsub,           \* the session's DirectorySubmission instance
    wexc,           \* str(e) held by the except block
    tasks,          \* background tasks queued by the routes, one per request
    resp,           \* body of the last GET /submissions/retryable response
    ex,             \* a call of SubmissionExecutor.execute_submission
    det,            \* a call on the form detector: detection, or mapping and fill
    sessions        \* the browser sessions of the executors and of their runs

vars == <<jobs, now, max_concurrent, is_running, current_tasks, wpc, wbatch,
          wjob, wsub, wexc, tasks, resp, ex, det, sessions>>

\* Python truthiness of an optional string
Truthy(opt) == opt # None /\ opt[1] # ""

\* Python truthiness of an optional dict
TruthyDict(opt) == opt # None /\ opt[1] # {}

\* DirectorySubmission(status=PENDING), column defaults
NewSubmission ==
    [status |-> PENDING, submitted_at |-> None, attempt_count |-> 0,
     max_attempts |-> DEFAULT_MAX_ATTEMPTS, last_attempt_at |-> None,
     submission_log |-> <<>>, error_message |-> None,
     screenshot_path |-> None, detected_fields |-> None,
     filled_fields |-> None]

\* the columns the scheduling decisions read and write
SchedulingColumns ==
    {"status", "attempt_count", "max_attempts", "last_attempt_at",
     "error_message"}

\* a new row, of the columns cols
NewRow(cols) == [c \in cols |-> NewSubmission[c]]

\* what is left of a deleted row: get_by_id gives None for it and no query
\* selects it
NoRow == [status |-> "deleted"]

NoResp == [limit |-> 0, ids |-> <<>>]

\* a task slot; sub is the session's instance, None without a session
IdleTask == [pc |-> "unused", queue |-> <<>>, sub |-> None]

\* -------------------------------------------------------- SubmissionService

\* ORDER BY key ASC LIMIT limit over the rows S the WHERE clause selects; key
\* maps a job id to a number, ties are broken by id (the insertion order)
RECURSIVE OrderLimit(_, _, _)
OrderLimit(S, key, limit) ==
    IF S = {} \/ limit <= 0 THEN <<>>
    ELSE LET first == CHOOSE j \in S :
                        \A k \in S : key[j] < key[k] \/ (key[j] = key[k] /\ j <= k)
         IN <<first>> \o OrderLimit(S \ {first}, key, limit - 1)

\* get_pending_submissions ordered by created_at.desc()
get_pending_submissions_newest_first(limit) ==
    LET rows == { j \in Jobs : /\ jobs[j].status = PENDING
                               /\ jobs[j].attempt_count < jobs[j].max_attempts }
    IN OrderLimit(rows, [j \in Jobs |-> 0 - j], limit)

\* get_pending_submissions: PENDING with attempts left, ORDER BY created_at
\* ASC LIMIT limit; the jobs are numbered in the order of their created_at
get_pending_submissions(limit) ==
    LET rows == { j \in Jobs : /\ jobs[j].status = PENDING
                               /\ jobs[j].attempt_count < jobs[j].max_attempts }
    IN OrderLimit(rows, [j \in Jobs |-> j], limit)

\* the comparison of get_retryable_submissions made non-strict
get_retryable_submissions_nonstrict(limit) ==
    LET retry_after == now - RETRY_AFTER
        rows == { j \in Jobs :
                    /\ jobs[j].status = FAILED
                    /\ jobs[j].attempt_count < jobs[j].max_attempts
                    /\ \/ jobs[j].last_attempt_at = None
                       \/ jobs[j].last_attempt_at[1] <= retry_after }
        key == [j \in Jobs |-> IF jobs[j].last_attempt_at = None THEN -1
                                ELSE jobs[j].last_attempt_at[1]]
    IN OrderLimit(rows, key, limit)

get_retryable_submissions(limit) ==
    LET retry_after == now - RETRY_AFTER
        rows == { j \in Jobs :
                    /\ jobs[j].status = FAILED
                    /\ jobs[j].attempt_count < jobs[j].max_attempts
                    /\ \/ jobs[j].last_attempt_at = None
                       \/ jobs[j].last_attempt_at[1] < retry_after }
        \* last_attempt_at.asc().nullsfirst()
        key == [j \in Jobs |-> IF jobs[j].last_attempt_at = None THEN -1
                                ELSE jobs[j].last_attempt_at[1]]
    IN OrderLimit(rows, key, limit)

\* submission.<column> = value
SetColumn(sub, column, value) ==
    IF column \in DOMAIN sub THEN [sub EXCEPT ![column] = value] ELSE sub

\* update_status without its screenshot_path branch
update_status_without_screenshot(sub, status, error_message, screenshot_path) ==
    LET s1 == SetColumn(sub, "status", status)
        s2 == IF status = SUBMITTED
              THEN SetColumn(s1, "submitted_at", Some(now)) ELSE s1
    IN IF Truthy(error_message)
       THEN SetColumn(s2, "error_message", error_message) ELSE s2

\* update_status on the instance sub: submitted_at with SUBMITTED;
\* error_message and screenshot_path are kept unless the argument is truthy
update_status(sub, status, error_message, screenshot_path) ==
    LET s1 == SetColumn(sub, "status", status)
        s2 == IF status = SUBMITTED
              THEN SetColumn(s1, "submitted_at", Some(now)) ELSE s1
        s3 == IF Truthy(error_message)
              THEN SetColumn(s2, "error_message", error_message) ELSE s2
    IN IF Truthy(screenshot_path)
       THEN SetColumn(s3, "screenshot_path", screenshot_path) ELSE s3

\* {**log_entry, 'timestamp': ..., 'attempt': submission.attempt_count}
LogRecord(log_entry, attempt) ==
    [timestamp |-> now, attempt |-> attempt] @@ log_entry

\* record_attempt on the instance sub, as the flush that ends it sees the
\* instance: its get_by_id runs in the caller's session and so yields the
\* instance the caller loaded at pickup, not a fresh copy of the row.
\* "logs = submission.submission_log or []" is a new list when the log is
\* empty, and the assignment is a change of the column; for a log with
\* records it is the loaded list itself, appended to in place and assigned
\* back, which the flush of a plain JSON column compares equal to the value
\* it holds as the original: the column is not written, and the refresh
\* drops the appended record.  detected_fields and filled_fields are kept
\* unless the argument is truthy
record_attempt(sub, log_entry, detected_fields, filled_fields) ==
    LET attempt == sub.attempt_count + 1
        s1 == SetColumn(sub, "attempt_count", attempt)
        s2 == SetColumn(s1, "last_attempt_at", Some(now))
        s3 == IF "submission_log" \in DOMAIN sub /\ sub.submission_log = <<>>
              THEN SetColumn(s2, "submission_log",
                             <<LogRecord(log_entry, attempt)>>)
              ELSE s2
        s4 == IF TruthyDict(detected_fields)
              THEN SetColumn(s3, "detected_fields", detected_fields) ELSE s3
    IN IF TruthyDict(filled_fields)
       THEN SetColumn(s4, "filled_fields", filled_fields) ELSE s4

\* Session.flush(): the UPDATE carries the columns of the instance sub that
\* differ from what the session loaded; the other columns of the row stay.
\* The refresh that follows makes the instance the row.
Flush(row, loaded, sub) ==
    [c \in DOMAIN row |-> IF sub[c] # loaded[c] THEN sub[c] ELSE row[c]]

\* ---------------------------------------------------------------- set-up
\* no call of execute_submission, of detect_form
NoCall == [pc |-> "idle"]

\* the runs that use a browser: 0 is the run the worker loop is in, r the
\* run_single_submission task of request r
Runs == {0} \cup Requests

\* a run that has not called execute_submission: own is the session its
\* start() opened, page the session of the context its page was made in,
\* closed the sessions its stop() closed
NoRun == [pc |-> "idle", own |-> None, page |-> None, closed |-> {}]

\* no session created; context is BrowserAutomation.context of the executor
\* of each run, None after __init__; done counts the runs of the worker
NoSessions ==
    [created |-> 0, done |-> 0, context |-> [x \in Runs |-> None],
     runs |-> [x \in Runs |-> NoRun]]

\* SubmissionWorker.__init__, no request made, nothing called
Constructed ==
    /\ is_running = FALSE
    /\ current_tasks = 0
    /\ wpc = "stopped"
    /\ wbatch = <<>>
    /\ wjob = 0
    /\ wsub = None
    /\ wexc = ""
    /\ tasks = [r \in Requests |-> IdleTask]
    /\ resp = NoResp
    /\ ex = NoCall
    /\ det = NoCall
    /\ sessions = NoSessions

\* the rows the API has created, of the columns cols, and the worker
\* constructed; the configured ceiling is any value up to the number of jobs
Created(cols) ==
    /\ jobs = [j \in Jobs |-> NewRow(cols)]
    /\ now = 0
    /\ max_concurrent \in 1..NumJobs
    /\ Constructed

Init == Created(SchedulingColumns)

worker_vars == <<max_concurrent, is_running, current_tasks, wpc, wbatch,
                 wjob, wsub, wexc>>

\* the clock advances
Tick ==
    /\ now < MaxTime
    /\ now' = now + 1
    /\ UNCHANGED <<jobs, worker_vars, tasks, resp, ex, det, sessions>>

\* ------------------------------------------------------- SubmissionWorker

\* start(): is_running = True, enter the loop
WorkerStart ==
    /\ wpc = "stopped"
    /\ is_running' = TRUE
    /\ wpc' = "poll"
    /\ UNCHANGED <<max_concurrent, jobs, now, current_tasks, wbatch, wjob, wsub, wexc, tasks, resp, ex, det, sessions>>

\* stop(): is_running = False
WorkerStop ==
    /\ is_running
    /\ is_running' = FALSE
    /\ UNCHANGED <<max_concurrent, jobs, now, current_tasks, wpc, wbatch, wjob, wsub, wexc, tasks, resp, ex, det, sessions>>

\* start() without its try/except: the exception ends the loop
start_without_handler == "crashed"

\* where start() goes when _process_queue raises: except Exception, sleep(60)
start_on_exception == "sleep60"

\* loop head of start() and the fetch of _process_queue
WorkerPoll ==
    /\ wpc = "poll"
    /\ IF ~is_running
       THEN /\ wpc' = "stopped"
            /\ wbatch' = <<>>
       ELSE LET submissions ==
                  get_pending_submissions(max_concurrent - current_tasks)
            IN /\ wbatch' = submissions
               /\ wpc' = IF submissions = <<>> THEN "sleep30" ELSE "next"
    /\ UNCHANGED <<max_concurrent, jobs, now, is_running, current_tasks, wjob, wsub, wexc, tasks, resp, ex, det, sessions>>

\* asyncio.sleep(30) after a pass, asyncio.sleep(60) after a worker error
WorkerSleep ==
    /\ wpc \in {"sleep30", "sleep60"}
    /\ wpc' = "poll"
    /\ UNCHANGED <<max_concurrent, jobs, now, is_running, current_tasks, wbatch, wjob, wsub, wexc, tasks, resp, ex, det, sessions>>

\* for submission in submissions: the pass is over, or the ceiling breaks it
WorkerPassEnd ==
    /\ wpc = "next"
    /\ wbatch = <<>> \/ current_tasks >= max_concurrent
    /\ wpc' = "sleep30"
    /\ wbatch' = <<>>
    /\ UNCHANGED <<max_concurrent, jobs, now, is_running, current_tasks, wjob, wsub, wexc, tasks, resp, ex, det, sessions>>

\* _process_submission up to the first commit: count the task, load the
\* submission, write IN_PROGRESS
WorkerPickup ==
    /\ wpc = "next"
    /\ wbatch # <<>>
    /\ current_tasks < max_concurrent
    /\ jobs[Head(wbatch)] # NoRow
    /\ LET j == Head(wbatch)
           loaded == jobs[j]
           sub == update_status(loaded, IN_PROGRESS, None, None)
       IN /\ jobs' = [jobs EXCEPT ![j] = Flush(jobs[j], loaded, sub)]
          /\ wjob' = j
          /\ wsub' = jobs'[j]
    /\ current_tasks' = current_tasks + 1
    /\ wbatch' = Tail(wbatch)
    /\ wpc' = "running"
    /\ wexc' = ""
    /\ UNCHANGED <<max_concurrent, now, is_running, tasks, resp, ex, det, sessions>>

\* _process_submission for a submission deleted since the fetch:
\* current_tasks += 1, get_by_id gives None, return, and the finally block
\* takes the count back; then the delay between submissions
WorkerPickupMissing ==
    /\ wpc = "next"
    /\ wbatch # <<>>
    /\ current_tasks < max_concurrent
    /\ jobs[Head(wbatch)] = NoRow
    /\ current_tasks' = (current_tasks + 1) - 1
    /\ wbatch' = Tail(wbatch)
    /\ UNCHANGED <<max_concurrent, jobs, now, is_running, wpc, wjob, wsub, wexc, tasks, resp, ex, det, sessions>>

\* "Check if max attempts reached", on the instance record_attempt has
\* just incremented
worker_failed_status(sub) ==
    IF sub.attempt_count >= sub.max_attempts - 1 THEN FAILED ELSE PENDING

\* log_entry of _process_submission
worker_log_entry(result) ==
    [status |-> IF result.success THEN "success" ELSE "failed",
     error |-> result.error]

\* the pipeline run returns result; record_attempt (flushed and refreshed),
\* final update_status, commit; finally: current_tasks -= 1; then the delay
\* between submissions
WorkerFinish(result) ==
    /\ wpc = "running"
    /\ LET recorded == record_attempt(wsub, worker_log_entry(result),
                                      result.detected_fields,
                                      result.filled_fields)
           submission == Flush(jobs[wjob], wsub, recorded)
       IN jobs' = [jobs EXCEPT ![wjob] =
                     IF jobs[wjob] = NoRow THEN NoRow
                     ELSE IF result.success
                     THEN update_status(submission, SUBMITTED, None,
                                        result.screenshot_path)
                     ELSE update_status(submission,
                                        worker_failed_status(submission),
                                        result.error, result.screenshot_path)]
    /\ current_tasks' = current_tasks - 1
    /\ wpc' = "next"
    /\ wjob' = 0
    /\ wsub' = None
    /\ UNCHANGED <<max_concurrent, now, is_running, wbatch, wexc, tasks, resp, ex, det, sessions>>

\* an exception leaves the try block (the pipeline, the data preparation or
\* the recording raised): the session is dropped with nothing committed
WorkerRaise(msg) ==
    /\ wpc = "running"
    /\ wpc' = "except"
    /\ wexc' = msg
    /\ wsub' = None
    /\ UNCHANGED <<max_concurrent, jobs, now, is_running, current_tasks, wbatch, wjob, tasks, resp, ex, det, sessions>>

\* except Exception: update_status(FAILED, str(e)) in a new session, commit;
\* finally: current_tasks -= 1
WorkerExcept ==
    /\ wpc = "except"
    /\ LET loaded == jobs[wjob]
           sub == update_status(loaded, FAILED, Some(wexc), None)
       IN jobs' = [jobs EXCEPT ![wjob] =
                     IF jobs[wjob] = NoRow THEN NoRow
                     ELSE Flush(jobs[wjob], loaded, sub)]
    /\ current_tasks' = current_tasks - 1
    /\ wpc' = "next"
    /\ wjob' = 0
    /\ wexc' = ""
    /\ UNCHANGED <<max_concurrent, now, is_running, wbatch, wsub, tasks, resp, ex, det, sessions>>

\* the except block raising with no finally block behind it
WorkerExceptRaise_without_finally ==
    /\ wpc = "except"
    /\ wpc' = start_on_exception
    /\ wbatch' = <<>>
    /\ wjob' = 0
    /\ wexc' = ""
    /\ UNCHANGED <<max_concurrent, jobs, now, is_running, current_tasks, wsub, tasks, resp, ex, det, sessions>>

\* the except block itself raises: finally runs, the exception leaves
\* _process_submission and _process_queue and reaches start()
WorkerExceptRaise ==
    /\ wpc = "except"
    /\ current_tasks' = current_tasks - 1
    /\ wpc' = start_on_exception
    /\ wbatch' = <<>>
    /\ wjob' = 0
    /\ wexc' = ""
    /\ UNCHANGED <<max_concurrent, jobs, now, is_running, wsub, tasks, resp, ex, det, sessions>>

WorkerNext ==
    \/ WorkerPoll
    \/ WorkerSleep
    \/ WorkerPassEnd
    \/ WorkerPickup
    \/ \E result \in PipelineResults : WorkerFinish(result)
    \/ \E msg \in ExceptionMessages : WorkerRaise(msg)
    \/ WorkerExcept
    \/ WorkerExceptRaise

\* ------------------------------------------- routes and background tasks

\* the task slot the next request gets: one per request, in order
FreshSlot(r) ==
    /\ tasks[r].pc = "unused"
    /\ \A q \in Requests : q < r => tasks[q].pc # "unused"

\* POST /submissions/{id}/run: add_task(run_single_submission, id)
run_submission(r, j) ==
    /\ FreshSlot(r)
    /\ tasks' = [tasks EXCEPT ![r] = [pc |-> "queued", queue |-> <<j>>,
                                      sub |-> None]]
    /\ UNCHANGED <<jobs, now, worker_vars, resp, ex, det, sessions>>

\* POST /submissions/{id}/retry: FAILED or REJECTED and attempts left, then
\* update_status(PENDING), committed with the request, and
\* add_task(run_single_submission, id)
retry_submission(r, j) ==
    /\ FreshSlot(r)
    /\ jobs[j].status \in {FAILED, REJECTED}
    /\ ~(jobs[j].attempt_count >= jobs[j].max_attempts)
    /\ LET loaded == jobs[j]
           sub == update_status(loaded, PENDING, None, None)
       IN jobs' = [jobs EXCEPT ![j] = Flush(jobs[j], loaded, sub)]
    /\ tasks' = [tasks EXCEPT ![r] = [pc |-> "queued", queue |-> <<j>>,
                                      sub |-> None]]
    /\ UNCHANGED <<now, worker_vars, resp, ex, det, sessions>>

\* POST /submissions/run-batch: one task per pending submission; the tasks
\* of one response run one after the other
run_batch_submissions(r, limit) ==
    /\ FreshSlot(r)
    /\ LET submissions == get_pending_submissions(limit)
       IN /\ submissions # <<>>
          /\ tasks' = [tasks EXCEPT ![r] = [pc |-> "queued",
                                            queue |-> submissions,
                                            sub |-> None]]
    /\ UNCHANGED <<jobs, now, worker_vars, resp, ex, det, sessions>>

\* GET /submissions/retryable
get_retryable(limit) ==
    /\ resp' = [limit |-> limit, ids |-> get_retryable_submissions(limit)]
    /\ UNCHANGED <<jobs, now, worker_vars, tasks, ex, det, sessions>>

\* run_single_submission up to the first commit: load the submission, write
\* IN_PROGRESS
TaskPickup(r) ==
    /\ tasks[r].pc = "queued"
    /\ LET j == Head(tasks[r].queue)
           loaded == jobs[j]
           sub == update_status(loaded, IN_PROGRESS, None, None)
       IN /\ jobs' = [jobs EXCEPT ![j] = Flush(jobs[j], loaded, sub)]
          /\ tasks' = [tasks EXCEPT ![r].pc = "running", ![r].sub = jobs'[j]]
    /\ UNCHANGED <<now, worker_vars, resp, ex, det, sessions>>

\* the rest of the response's tasks, or the end of them
AfterTask(t, rest) ==
    [pc |-> IF rest = <<>> THEN "done" ELSE "queued", queue |-> rest,
     sub |-> None]

\* log_entry of run_single_submission
task_log_entry(result) ==
    [status |-> IF result.success THEN "success" ELSE "failed"]

\* the pipeline run returns result: record_attempt (flushed and refreshed),
\* final update_status, commit
TaskFinish(r, result) ==
    /\ tasks[r].pc = "running"
    /\ LET j == Head(tasks[r].queue)
           loaded == tasks[r].sub
           recorded == record_attempt(loaded, task_log_entry(result),
                                      result.detected_fields,
                                      result.filled_fields)
           submission == Flush(jobs[j], loaded, recorded)
       IN jobs' = [jobs EXCEPT ![j] =
                     IF result.success
                     THEN update_status(submission, SUBMITTED, None,
                                        result.screenshot_path)
                     ELSE update_status(submission, FAILED, result.error,
                                        result.screenshot_path)]
    /\ tasks' = [tasks EXCEPT ![r] = AfterTask(tasks[r], Tail(tasks[r].queue))]
    /\ UNCHANGED <<now, worker_vars, resp, ex, det, sessions>>

\* an exception leaves run_single_submission: nothing catches it, nothing is
\* committed, and the later tasks of the response are not run
TaskRaise(r) ==
    /\ tasks[r].pc = "running"
    /\ tasks' = [tasks EXCEPT ![r] = AfterTask(tasks[r], <<>>)]
    /\ UNCHANGED <<jobs, now, worker_vars, resp, ex, det, sessions>>

ApiNext ==
    \/ \E r \in Requests, j \in Jobs : run_submission(r, j)
    \/ \E r \in Requests, j \in Jobs : retry_submission(r, j)
    \/ \E r \in Requests, limit \in 1..NumJobs : run_batch_submissions(r, limit)

TaskNext ==
    \/ \E r \in Requests : TaskPickup(r)
    \/ \E r \in Requests, result \in PipelineResults : TaskFinish(r, result)
    \/ \E r \in Requests : TaskRaise(r)

Next ==
    \/ Tick
    \/ WorkerStart
    \/ WorkerStop
    \/ WorkerNext
    \/ ApiNext
    \/ TaskNext

Spec == Init /\ [][Next]_vars

\* the worker loop and the pipeline runs it awaits keep going
FairSpec == Spec /\ WF_vars(WorkerNext)

\* the worker loop alone, no request made
WorkerOnlyNext ==
    \/ Tick
    \/ WorkerStart
    \/ WorkerStop
    \/ WorkerNext

WorkerFairSpec == Init /\ [][WorkerOnlyNext]_vars /\ WF_vars(WorkerNext)

\* DELETE /submissions/{id}: the row is deleted; 404 when there is none
delete_submission(j) ==
    /\ jobs[j] # NoRow
    /\ jobs' = [jobs EXCEPT ![j] = NoRow]
    /\ UNCHANGED <<now, worker_vars, tasks, resp, ex, det, sessions>>

\* the worker loop while submissions are deleted through the API
DeleteNext ==
    \/ WorkerOnlyNext
    \/ WorkerPickupMissing
    \/ \E j \in Jobs : delete_submission(j)

DeleteSpec == Init /\ [][DeleteNext]_vars

\* ------------------------------------------------ the retry query alone

\* rows the table can hold: an attempt sets the count and the time together,
\* a pending row has attempts left, a submitted row was attempted
StoredRows ==
    { row \in [status : {PENDING, IN_PROGRESS, SUBMITTED, FAILED},
               attempt_count : 0..DEFAULT_MAX_ATTEMPTS,
               max_attempts : {DEFAULT_MAX_ATTEMPTS},
               last_attempt_at : {None} \cup {Some(t) : t \in Times},
               error_message : {None}] :
        /\ (row.attempt_count = 0) <=> (row.last_attempt_at = None)
        /\ row.status = PENDING => row.attempt_count < row.max_attempts
        /\ row.status = SUBMITTED => row.attempt_count > 0 }

QueryInit ==
    /\ jobs \in [Jobs -> StoredRows]
    /\ now \in Times
    /\ \A j \in Jobs : jobs[j].last_attempt_at # None
                          => jobs[j].last_attempt_at[1] <= now
    /\ max_concurrent = NumJobs
    /\ Constructed

QueryNext == \E limit \in 1..NumJobs : get_retryable(limit)

QuerySpec == QueryInit /\ [][QueryNext]_vars

\* ---------------------------------------------------------------- strings
\* a string whose characters are read is the sequence of its characters

UpperCase ==
    <<"A", "B", "C", "D", "E", "F", "G", "H", "I", "J", "K", "L", "M", "N", "O", "P", "Q", "R", "S", "T", "U", "V", "W", "X", "Y", "Z">>

LowerCase ==
    <<"a", "b", "c", "d", "e", "f", "g", "h", "i", "j", "k", "l", "m", "n", "o", "p", "q", "r", "s", "t", "u", "v", "w", "x", "y", "z">>

\* str.lower() on one character
lower(c) ==
    IF \E i \in 1..Len(UpperCase) : UpperCase[i] = c
    THEN LowerCase[CHOOSE i \in 1..Len(UpperCase) : UpperCase[i] = c]
    ELSE c

\* key in s
Contains(key, s) ==
    \E i \in 0..(Len(s) - Len(key)) : SubSeq(s, i + 1, i + Len(key)) = key


\* ------------------------------------- SubmissionExecutor.execute_submission

\* success_phrases of check_submission_success, in the order of the list
success_phrases ==
    <<<<"t", "h", "a", "n", "k", " ", "y", "o", "u">>,
      <<"t", "h", "a", "n", "k", "s", " ", "f", "o", "r">>,
      <<"s", "u", "c", "c", "e", "s", "s", "f", "u", "l", "l", "y", " ", "s", "u", "b", "m", "i", "t", "t", "e", "d">>,
      <<"s", "u", "b", "m", "i", "s", "s", "i", "o", "n", " ", "r", "e", "c", "e", "i", "v", "e", "d">>,
      <<"w", "e", " ", "w", "i", "l", "l", " ", "r", "e", "v", "i", "e", "w">>,
      <<"p", "e", "n", "d", "i", "n", "g", " ", "a", "p", "p", "r", "o", "v", "a", "l">>,
      <<"l", "i", "s", "t", "i", "n", "g", " ", "a", "d", "d", "e", "d">>,
      <<"p", "r", "o", "d", "u", "c", "t", " ", "a", "d", "d", "e", "d">>,
      <<"s", "u", "c", "c", "e", "s", "s", "f", "u", "l", "l", "y", " ", "a", "d", "d", "e", "d">>>>

\* error_phrases of check_submission_success, in the order of the list
error_phrases ==
    <<<<"e", "r", "r", "o", "r">>,
      <<"f", "a", "i", "l", "e", "d">>,
      <<"i", "n", "v", "a", "l", "i", "d">>,
      <<"r", "e", "q", "u", "i", "r", "e", "d", " ", "f", "i", "e", "l", "d">>,
      <<"p", "l", "e", "a", "s", "e", " ", "f", "i", "l", "l">>,
      <<"a", "l", "r", "e", "a", "d", "y", " ", "e", "x", "i", "s", "t", "s">>,
      <<"d", "u", "p", "l", "i", "c", "a", "t", "e">>>>

\* page.content() after the click: thanks; thanks and a word of the error
\* list; two success phrases, the later of the list first; one error phrase;
\* two error phrases, the later of the list first; neither; nothing
Htmls ==
    {<<"T", "h", "a", "n", "k", "s", " ", "f", "o", "r", " ", "i", "t">>,
     <<"T", "h", "a", "n", "k", " ", "y", "o", "u", ".", " ", "N", "o", " ", "e", "r", "r", "o", "r", "s">>,
     <<"L", "i", "s", "t", "i", "n", "g", " ", "a", "d", "d", "e", "d", ",", " ", "t", "h", "a", "n", "k", " ", "y", "o", "u">>,
     <<"I", "n", "v", "a", "l", "i", "d", " ", "U", "R", "L">>,
     <<"A", "l", "r", "e", "a", "d", "y", " ", "e", "x", "i", "s", "t", "s", ".", " ", "F", "A", "I", "L", "E", "D">>,
     <<"W", "e", "l", "c", "o", "m", "e">>,
     <<>>}

\* html.lower()
html_lower_of(html) == [i \in 1..Len(html) |-> lower(html[i])]

\* for phrase in phrases: if phrase in html_lower, from entry k on: the
\* position of the first phrase of the list the page holds, None without one
RECURSIVE first_phrase(_, _, _)
first_phrase(phrases, html_lower, k) ==
    IF k > Len(phrases) THEN None
    ELSE IF Contains(phrases[k], html_lower) THEN Some(k)
    ELSE first_phrase(phrases, html_lower, k + 1)

\* page.goto: a response with its status, no response (None), or a raised
\* timeout
Responses ==
    [kind : {"response"}, status : {200, 204, 404, 500}]
        \cup {[kind |-> "none"], [kind |-> "timeout"]}

\* navigate_to_url with every response taken for a loaded page
navigate_to_url_any_response(response) == response.kind = "response"

\* navigate_to_url: response and response.ok, False on an exception
navigate_to_url(response) ==
    response.kind = "response" /\ response.status \in 200..299

\* what detect_form of the browser hands back, as execute_submission reads it
FormResults ==
    [form_found : BOOLEAN, submit_button_selector : {None, Some("#submit")}]

\* field_mapping after the logo is added: selector -> value, its keys
FieldMappings == {{}, {"#name"}}

\* keys of result["detected_fields"]
DetectedKeys == {"fields", "form_selector", "submit_button", "confidence"}

\* take_screenshot(page, name): "screenshots/{name}_{timestamp}.png"
ScreenshotPath ==
    [submission |-> "screenshots/submission.png",
     result |-> "screenshots/result.png",
     error |-> "screenshots/error.png"]

\* result = {...} at the head of execute_submission
InitialResult ==
    [success |-> FALSE, detected_fields |-> Some({}), filled_fields |-> Some({}),
     screenshot_path |-> None, error |-> None, logs |-> <<>>]

\* result["logs"].append({"step": step, "status": status})
Logged(result, step, status) ==
    [result EXCEPT !.logs = Append(@, [step |-> step, status |-> status])]

\* result["error"] = error
Failed(result, error) == [result EXCEPT !.error = Some(error)]

\* f"Detected success phrase: {phrase}", by the position of the phrase
success_messages ==
    <<"Detected success phrase: thank you",
      "Detected success phrase: thanks for",
      "Detected success phrase: successfully submitted",
      "Detected success phrase: submission received",
      "Detected success phrase: we will review",
      "Detected success phrase: pending approval",
      "Detected success phrase: listing added",
      "Detected success phrase: product added",
      "Detected success phrase: successfully added">>

\* f"Detected error phrase: {phrase}", by the position of the phrase
error_messages ==
    <<"Detected error phrase: error",
      "Detected error phrase: failed",
      "Detected error phrase: invalid",
      "Detected error phrase: required field",
      "Detected error phrase: please fill",
      "Detected error phrase: already exists",
      "Detected error phrase: duplicate">>

\* check_submission_success on the page html: success True, False or None,
\* and the message
submission_check_of(html) ==
    LET html_lower == html_lower_of(html)
        success == first_phrase(success_phrases, html_lower, 1)
        error == first_phrase(error_phrases, html_lower, 1)
    IN IF success # None
       THEN [success |-> Some(TRUE), message |-> success_messages[success[1]]]
       ELSE IF error # None
       THEN [success |-> Some(FALSE), message |-> error_messages[error[1]]]
       ELSE [success |-> None,
             message |-> "Could not determine submission result"]

\* the call: a new executor, its BrowserAutomation not started, page = None
Execute ==
    /\ ex.pc = "idle"
    /\ ex' = [pc |-> "start", result |-> InitialResult, page |-> FALSE,
              playwright |-> "none", browser |-> "none", context |-> "none",
              steps |-> <<>>, response |-> None, form_result |-> None,
              captcha |-> None, clicked |-> None, html |-> None,
              check |-> None,
              failed_captures |-> {}, exc |-> ""]
    /\ UNCHANGED <<jobs, now, worker_vars, tasks, resp, det, sessions>>

\* the step named step is attempted and leads to pc
Step(step, pc) == [ex EXCEPT !.steps = Append(@, step), !.pc = pc]

\* an exception raised in the try block reaches except Exception as e
Raised(step, msg) == [Step(step, "except") EXCEPT !.exc = msg]

\* return result inside the try block: the finally block runs next
Return(state, result) == [state EXCEPT !.result = result, !.pc = "stop"]

\* self.browser.start(): the Playwright driver, the browser, the context;
\* raises_at names the call that raises with message msg, "" for none
browser_start(raises_at, msg) ==
    /\ ex.pc = "start"
    /\ LET started == [ex EXCEPT
               !.playwright = IF raises_at = "playwright" THEN @ ELSE "started",
               !.browser = IF raises_at \in {"playwright", "launch"} THEN @
                           ELSE "open",
               !.context = IF raises_at = "" THEN "open" ELSE @]
       IN ex' = [started EXCEPT
                   !.steps = Append(@, "start"),
                   !.pc = IF raises_at = "" THEN "new_page" ELSE "except",
                   !.exc = IF raises_at = "" THEN @ ELSE msg]
    /\ UNCHANGED <<jobs, now, worker_vars, tasks, resp, det, sessions>>

\* page = await self.browser.new_page()
new_page(msg) ==
    /\ ex.pc = "new_page"
    /\ ex' = IF msg = None THEN [Step("new_page", "navigate") EXCEPT !.page = TRUE]
             ELSE Raised("new_page", msg[1])
    /\ UNCHANGED <<jobs, now, worker_vars, tasks, resp, det, sessions>>

\* Step 1: navigate to the directory
navigate(response) ==
    /\ ex.pc = "navigate"
    /\ LET started == Logged(ex.result, "navigate", "started")
           state == [Step("navigate", "screenshot") EXCEPT
                        !.response = Some(response)]
       IN ex' = IF ~navigate_to_url(response)
                THEN Return(state, Logged(Failed(started, LOAD_ERROR),
                                          "navigate", "failed"))
                ELSE [state EXCEPT
                        !.result = Logged(started, "navigate", "success")]
    /\ UNCHANGED <<jobs, now, worker_vars, tasks, resp, det, sessions>>

\* Step 2: initial screenshot; take_screenshot has no handler of its own
initial_screenshot(msg) ==
    /\ ex.pc = "screenshot"
    /\ ex' = IF msg = None
             THEN [Step("screenshot", "detect_form") EXCEPT
                     !.result.screenshot_path = Some(ScreenshotPath.submission)]
             ELSE [Raised("screenshot", msg[1]) EXCEPT
                     !.failed_captures = @ \cup {"submission"}]
    /\ UNCHANGED <<jobs, now, worker_vars, tasks, resp, det, sessions>>

\* Step 3: detect the form
browser_detect_form(form_result) ==
    /\ ex.pc = "detect_form"
    /\ LET started == Logged(ex.result, "detect_form", "started")
           state == [Step("detect_form", "fill_form") EXCEPT
                        !.form_result = Some(form_result)]
       IN ex' = IF ~form_result.form_found
                THEN Return(state,
                            Logged(Failed(started, "No submission form found"),
                                   "detect_form", "failed"))
                ELSE [state EXCEPT
                        !.result = Logged([started EXCEPT
                                             !.detected_fields = Some(DetectedKeys)],
                                          "detect_form", "success")]
    /\ UNCHANGED <<jobs, now, worker_vars, tasks, resp, det, sessions>>

\* Steps 4 and 5: map the product data, add the logo, fill the form
fill_form(field_mapping) ==
    /\ ex.pc = "fill_form"
    /\ LET started == Logged(ex.result, "fill_form", "started")
       IN ex' = [Step("fill_form", "captcha_check") EXCEPT
                   !.steps = Append(Append(ex.steps, "map_saas_data_to_fields"),
                                    "fill_form"),
                   !.result = Logged([started EXCEPT
                                        !.filled_fields = Some(field_mapping)],
                                     "fill_form", "success")]
    /\ UNCHANGED <<jobs, now, worker_vars, tasks, resp, det, sessions>>

\* the check for a CAPTCHA with its outcome ignored
handle_captcha_ignored(has_captcha) ==
    /\ ex.pc = "captcha_check"
    /\ ex' = [Step("captcha_check", "submit") EXCEPT
                !.captcha = Some(has_captcha)]
    /\ UNCHANGED <<jobs, now, worker_vars, tasks, resp, det, sessions>>

\* check for a CAPTCHA
handle_captcha(has_captcha) ==
    /\ ex.pc = "captcha_check"
    /\ LET state == [Step("captcha_check", "submit") EXCEPT
                        !.captcha = Some(has_captcha)]
       IN ex' = IF has_captcha
                THEN Return(state, Logged(Failed(ex.result, CAPTCHA_ERROR),
                                          "captcha_check", "blocked"))
                ELSE state
    /\ UNCHANGED <<jobs, now, worker_vars, tasks, resp, det, sessions>>

\* Step 6 going on to the check whatever click_submit returned
click_submit_unchecked(found, clicked) ==
    /\ ex.pc = "submit"
    /\ ex' = [ex EXCEPT !.steps = Append(@, "click_submit"),
                        !.clicked = Some(clicked),
                        !.result = Logged(ex.result, "submit", "started"),
                        !.pc = "check"]
    /\ UNCHANGED <<jobs, now, worker_vars, tasks, resp, det, sessions>>

\* Step 6: the detected submit selector or find_submit_button (found), then
\* click_submit (clicked)
click_submit(found, clicked) ==
    /\ ex.pc = "submit"
    /\ LET started == Logged(ex.result, "submit", "started")
           detected == ex.form_result[1].submit_button_selector
           submit_selector == IF detected # None THEN detected ELSE found
           looked == IF detected # None THEN ex
                     ELSE [ex EXCEPT !.steps = Append(@, "find_submit_button")]
           tried == [looked EXCEPT !.steps = Append(@, "click_submit"),
                                   !.clicked = Some(clicked)]
       IN ex' = IF submit_selector = None
                THEN Return(looked,
                            Logged(Failed(started, "Could not find submit button"),
                                   "submit", "failed"))
                ELSE IF ~clicked
                THEN Return(tried,
                            Logged(Failed(started, "Failed to click submit button"),
                                   "submit", "failed"))
                ELSE [tried EXCEPT !.result = started, !.pc = "check"]
    /\ UNCHANGED <<jobs, now, worker_vars, tasks, resp, det, sessions>>

\* Step 7: check_submission_success reads the page
check_submission_success(html, msg) ==
    /\ ex.pc = "check"
    /\ ex' = IF msg = None
             THEN [Step("check", "final_screenshot") EXCEPT
                     !.html = Some(html),
                     !.check = Some(submission_check_of(html))]
             ELSE Raised("check", msg[1])
    /\ UNCHANGED <<jobs, now, worker_vars, tasks, resp, det, sessions>>

\* the final screenshot, then the outcome of the check
final_screenshot(msg) ==
    /\ ex.pc = "final_screenshot"
    /\ LET shot == [ex.result EXCEPT
                      !.screenshot_path = Some(ScreenshotPath.result)]
           submission_check == ex.check[1]
           result ==
               IF submission_check.success = Some(TRUE)
               THEN Logged([shot EXCEPT !.success = TRUE], "submit", "success")
               ELSE IF submission_check.success = Some(FALSE)
               THEN Logged(Failed(shot, submission_check.message),
                           "submit", "failed")
               ELSE [shot EXCEPT
                       !.success = TRUE,
                       !.logs = Append(@, [step |-> "submit",
                                           status |-> "unknown",
                                           note |-> "Could not confirm, assuming success"])]
       IN ex' = IF msg = None
                THEN Return(Step("final_screenshot", "stop"), result)
                ELSE [Raised("final_screenshot", msg[1]) EXCEPT
                        !.failed_captures = @ \cup {"result"}]
    /\ UNCHANGED <<jobs, now, worker_vars, tasks, resp, det, sessions>>

\* except Exception as e: the error, and a screenshot if there is a page and
\* the capture works (captured)
on_exception(captured) ==
    /\ ex.pc = "except"
    /\ LET error == [ex.result EXCEPT
                       !.error = Some(ex.exc),
                       !.logs = Append(@, [step |-> "error", message |-> ex.exc])]
           state == IF ex.page THEN Step("error_screenshot", "stop")
                    ELSE [ex EXCEPT !.pc = "stop"]
       IN ex' = [state EXCEPT
                   !.result = IF ex.page /\ captured
                              THEN [error EXCEPT
                                      !.screenshot_path = Some(ScreenshotPath.error)]
                              ELSE error,
                   !.failed_captures = IF ex.page /\ ~captured
                                       THEN @ \cup {"error"} ELSE @]
    /\ UNCHANGED <<jobs, now, worker_vars, tasks, resp, det, sessions>>

\* finally: self.browser.stop(): context.close(), browser.close();
\* raises_at names the call that raises, "" for none.  An exception leaves
\* the finally block in place of the returned result.
browser_stop(raises_at) ==
    /\ ex.pc = "stop"
    /\ raises_at = "context" => ex.context # "none"
    /\ raises_at = "browser" => ex.browser # "none"
    /\ ex' = [ex EXCEPT
                !.steps = Append(@, "stop"),
                !.context = IF @ # "none" /\ raises_at # "context"
                            THEN "closed" ELSE @,
                !.browser = IF @ # "none" /\ raises_at = ""
                            THEN "closed" ELSE @,
                !.pc = IF raises_at = "" THEN "returned" ELSE "raised"]
    /\ UNCHANGED <<jobs, now, worker_vars, tasks, resp, det, sessions>>

\* an outcome of a call that can raise: None, or str(e)
Raises == {None} \cup {Some(msg) : msg \in ExceptionMessages}

ExecNext ==
    \/ Execute
    \/ \E raises_at \in {"", "playwright", "launch", "context"},
          msg \in ExceptionMessages : browser_start(raises_at, msg)
    \/ \E msg \in Raises : new_page(msg)
    \/ \E response \in Responses : navigate(response)
    \/ \E msg \in Raises : initial_screenshot(msg)
    \/ \E form_result \in FormResults : browser_detect_form(form_result)
    \/ \E field_mapping \in FieldMappings : fill_form(field_mapping)
    \/ \E has_captcha \in BOOLEAN : handle_captcha(has_captcha)
    \/ \E found \in {None, Some("#submit-btn")}, clicked \in BOOLEAN :
          click_submit(found, clicked)
    \/ \E html \in Htmls, msg \in Raises :
          check_submission_success(html, msg)
    \/ \E msg \in Raises : final_screenshot(msg)
    \/ \E captured \in BOOLEAN : on_exception(captured)
    \/ \E raises_at \in {"", "context", "browser"} : browser_stop(raises_at)

\* one call of execute_submission, from a newly constructed executor
ExecSpec == Init /\ [][ExecNext]_vars

\* --------------------------------------- FormDetectionService.detect_form

\* the JSON text a provider's answer may hold, by what json.loads makes of
\* it: an object with (or without) the keys detect_form reads, another JSON
\* value, or no JSON at all.  confidence "0.9" is the number 0.9, "high" a
\* string; fields "[field]" is a list of one field object, "[nameless]" of
\* one whose name is null, "[1]" a list of a number, "7" a number.
JsonTexts ==
    [type : {"object"},
     form_found : {"absent", "true", "false", "null"},
     confidence : {"absent", "0.0", "0.9", "high"},
     fields : {"absent", "[]", "[field]", "[nameless]", "[1]", "7"}]
        \cup {[type |-> "array"], [type |-> "number"], [type |-> "invalid"]}

\* the pieces of the model's answer: a code fence (three backticks), the
\* word json, prose, and the JSON text
Tokens == {"fence", "json", "prose", "JSON"}

\* answers of up to MaxTokens pieces
Contents == UNION { [1..n -> Tokens] : n \in 0..MaxTokens }

\* what the provider call meets: no connection, or a response with its
\* status and body; the body is not JSON, has no message content, or
\* carries the content with its JSON text
ProviderResponses ==
    {[kind |-> "transport_error"]}
        \cup [kind : {"http"}, status : {401, 429, 500}]
        \cup [kind : {"http"}, status : {200}, body : {"not_json", "no_content"}]
        \cup [kind : {"http"}, status : {200}, body : {"content"},
              content : Contents, json : JsonTexts]

Min(S) == CHOOSE x \in S : \A y \in S : x <= y

\* seq.split("```")[0]
BeforeFence(seq) ==
    LET fences == { i \in 1..Len(seq) : seq[i] = "fence" }
    IN IF fences = {} THEN seq ELSE SubSeq(seq, 1, Min(fences) - 1)

\* places where "```json" is in content
FenceJsonAt(content) ==
    { i \in 1..(Len(content) - 1) : content[i] = "fence" /\ content[i + 1] = "json" }

\* the json_str _parse_response cuts out of content
json_str(content) ==
    IF FenceJsonAt(content) # {}
    THEN BeforeFence(SubSeq(content, Min(FenceJsonAt(content)) + 2, Len(content)))
    ELSE IF \E i \in 1..Len(content) : content[i] = "fence"
    THEN BeforeFence(SubSeq(content,
                            Min({ i \in 1..Len(content) : content[i] = "fence" }) + 1,
                            Len(content)))
    ELSE content

\* the dict _parse_response returns on json.JSONDecodeError
ParseFailure ==
    [type |-> "object", form_found |-> "false", confidence |-> "0.0",
     fields |-> "[]"]

\* _parse_response: json.loads(json_str.strip()), the failure dict when it
\* is no JSON document
parse_response(content, json) ==
    IF json_str(content) = <<"JSON">> /\ json.type # "invalid"
    THEN json
    ELSE ParseFailure

\* the except block of detect_form left out: the exception propagates
detection_error_propagates == [raised |-> TRUE]

\* except Exception in detect_form
detection_error ==
    [raised |-> FALSE, form_found |-> FALSE, confidence |-> 0, fields |-> 0]

\* the try block of detect_form on the dict analyze_form returned; confidence
\* in tenths
detection_of(result) ==
    IF \/ result.type # "object"
       \/ result.fields \in {"[nameless]", "[1]", "7"}
       \/ result.form_found = "null"
       \/ result.confidence = "high"
    THEN detection_error
    ELSE [raised |-> FALSE,
          form_found |-> (result.form_found = "true"),
          confidence |-> IF result.confidence = "0.9" THEN 9 ELSE 0,
          fields |-> IF result.fields = "[field]" THEN 1 ELSE 0]

\* detect_form on what the provider call meets
detect_form(response) ==
    IF response.kind = "transport_error" THEN detection_error
    ELSE IF response.status # 200 THEN detection_error
    ELSE IF response.body \in {"not_json", "no_content"} THEN detection_error
    ELSE detection_of(parse_response(response.content, response.json))

\* detect_form is called and the provider call meets response
analyze_form ==
    /\ det.pc = "idle"
    /\ \E response \in ProviderResponses :
           det' = [pc |-> "called", response |-> response]
    /\ UNCHANGED <<jobs, now, worker_vars, tasks, resp, ex, sessions>>

\* detect_form returns, or raises
detect_form_returns ==
    /\ det.pc = "called"
    /\ det' = [pc |-> "returned", response |-> det.response,
               result |-> detect_form(det.response)]
    /\ UNCHANGED <<jobs, now, worker_vars, tasks, resp, ex, sessions>>

DetectNext ==
    \/ analyze_form
    \/ detect_form_returns

DetectSpec == Init /\ [][DetectNext]_vars

\* ----------------------------- FormDetectionService.map_saas_data_to_fields

\* Field names and labels are sequences of characters, so that "key in
\* field_name_lower" is the substring test it is in the code; selectors,
\* product attributes and values are compared as wholes and stay strings.

\* the table field_mapping, in the order of the dict: the key and the product
\* attributes tried for it
field_mapping ==
    <<
      [key |-> <<"n", "a", "m", "e">>,
       saas_keys |-> <<"name", "saas_name", "product_name", "title", "tool_name", "startup_name">>],
      [key |-> <<"p", "r", "o", "d", "u", "c", "t", "_", "n", "a", "m", "e">>,
       saas_keys |-> <<"name", "saas_name">>],
      [key |-> <<"t", "o", "o", "l", "_", "n", "a", "m", "e">>,
       saas_keys |-> <<"name">>],
      [key |-> <<"s", "t", "a", "r", "t", "u", "p", "_", "n", "a", "m", "e">>,
       saas_keys |-> <<"name">>],
      [key |-> <<"t", "i", "t", "l", "e">>,
       saas_keys |-> <<"name", "tagline">>],
      [key |-> <<"u", "r", "l">>,
       saas_keys |-> <<"website_url", "url", "website", "link", "homepage">>],
      [key |-> <<"w", "e", "b", "s", "i", "t", "e">>,
       saas_keys |-> <<"website_url">>],
      [key |-> <<"w", "e", "b", "s", "i", "t", "e", "_", "u", "r", "l">>,
       saas_keys |-> <<"website_url">>],
      [key |-> <<"l", "i", "n", "k">>,
       saas_keys |-> <<"website_url">>],
      [key |-> <<"h", "o", "m", "e", "p", "a", "g", "e">>,
       saas_keys |-> <<"website_url">>],
      [key |-> <<"d", "e", "s", "c", "r", "i", "p", "t", "i", "o", "n">>,
       saas_keys |-> <<"short_description", "long_description", "tagline">>],
      [key |-> <<"s", "h", "o", "r", "t", "_", "d", "e", "s", "c", "r", "i", "p", "t", "i", "o", "n">>,
       saas_keys |-> <<"short_description", "tagline">>],
      [key |-> <<"l", "o", "n", "g", "_", "d", "e", "s", "c", "r", "i", "p", "t", "i", "o", "n">>,
       saas_keys |-> <<"long_description", "short_description">>],
      [key |-> <<"t", "a", "g", "l", "i", "n", "e">>,
       saas_keys |-> <<"tagline", "short_description">>],
      [key |-> <<"s", "u", "m", "m", "a", "r", "y">>,
       saas_keys |-> <<"short_description">>],
      [key |-> <<"a", "b", "o", "u", "t">>,
       saas_keys |-> <<"long_description", "short_description">>],
      [key |-> <<"e", "m", "a", "i", "l">>,
       saas_keys |-> <<"contact_email">>],
      [key |-> <<"c", "o", "n", "t", "a", "c", "t", "_", "e", "m", "a", "i", "l">>,
       saas_keys |-> <<"contact_email">>],
      [key |-> <<"c", "o", "n", "t", "a", "c", "t">>,
       saas_keys |-> <<"contact_email">>],
      [key |-> <<"c", "a", "t", "e", "g", "o", "r", "y">>,
       saas_keys |-> <<"category">>],
      [key |-> <<"c", "a", "t", "e", "g", "o", "r", "i", "e", "s">>,
       saas_keys |-> <<"category">>],
      [key |-> <<"t", "y", "p", "e">>,
       saas_keys |-> <<"category">>],
      [key |-> <<"p", "r", "i", "c", "i", "n", "g">>,
       saas_keys |-> <<"pricing_model", "pricing_details">>],
      [key |-> <<"p", "r", "i", "c", "e">>,
       saas_keys |-> <<"pricing_model">>],
      [key |-> <<"p", "r", "i", "c", "i", "n", "g", "_", "m", "o", "d", "e", "l">>,
       saas_keys |-> <<"pricing_model">>],
      [key |-> <<"t", "w", "i", "t", "t", "e", "r">>,
       saas_keys |-> <<"twitter_url">>],
      [key |-> <<"t", "w", "i", "t", "t", "e", "r", "_", "u", "r", "l">>,
       saas_keys |-> <<"twitter_url">>],
      [key |-> <<"l", "i", "n", "k", "e", "d", "i", "n">>,
       saas_keys |-> <<"linkedin_url">>],
      [key |-> <<"g", "i", "t", "h", "u", "b">>,
       saas_keys |-> <<"github_url">>]
    >>

\* s.lower().replace("-", "_").replace(" ", "_")
normalize(s) ==
    [i \in 1..Len(s) |-> IF lower(s[i]) \in {"-", " "} THEN "_" ELSE lower(s[i])]

\* the inner loop: the first product attribute of saas_keys, from position
\* k on, that saas_data holds with a non-empty value; None without one
RECURSIVE first_value(_, _, _)
first_value(saas_keys, saas_data, k) ==
    IF k > Len(saas_keys) THEN None
    ELSE IF saas_keys[k] \in DOMAIN saas_data /\ saas_data[saas_keys[k]] # ""
    THEN Some(saas_data[saas_keys[k]])
    ELSE first_value(saas_keys, saas_data, k + 1)

\* the loop over field_mapping.items() from entry k on
RECURSIVE matched_from(_, _, _, _)
matched_from(field_name_lower, label_lower, saas_data, k) ==
    IF k > Len(field_mapping) THEN None
    ELSE LET entry == field_mapping[k]
             value == first_value(entry.saas_keys, saas_data, 1)
         IN IF /\ \/ Contains(entry.key, field_name_lower)
                     \/ Contains(entry.key, label_lower)
                  /\ value # None
            THEN value
            ELSE matched_from(field_name_lower, label_lower, saas_data, k + 1)

\* matched_value for a field, None without a match
matched_value(field, saas_data) ==
    matched_from(normalize(field.name), normalize(field.label), saas_data, 1)

\* the entry of filled_fields for a field
MappedEntry(field, value) ==
    [field_name |-> field.name, field_type |-> field.field_type,
     value |-> value]

\* map_saas_data_to_fields: filled_fields after the first k fields, a dict
\* from selector to entry
RECURSIVE filled_after(_, _, _)
filled_after(fields, saas_data, k) ==
    IF k = 0 THEN <<>>
    ELSE LET field == fields[k]
             value == matched_value(field, saas_data)
             before == filled_after(fields, saas_data, k - 1)
         IN IF value # None
            THEN (field.selector :> MappedEntry(field, value[1])) @@ before
            ELSE before

map_saas_data_to_fields(fields, saas_data) ==
    filled_after(fields, saas_data, Len(fields))

\* the fields of type file, by position
FileFields(fields) == { i \in 1..Len(fields) : fields[i].field_type = "file" }

\* "Add logo if provided" with the wrong field: the last file field
add_logo_to_last(mapping, fields, logo_path) ==
    IF Truthy(logo_path) /\ FileFields(fields) # {}
    THEN LET field == fields[CHOOSE i \in FileFields(fields) :
                                \A k \in FileFields(fields) : k <= i]
         IN (field.selector :> MappedEntry(field, logo_path[1])) @@ mapping
    ELSE mapping

\* "Add logo if provided and there's a file field"
add_logo(mapping, fields, logo_path) ==
    IF Truthy(logo_path) /\ FileFields(fields) # {}
    THEN LET field == fields[Min(FileFields(fields))]
         IN (field.selector :> [field_name |-> field.name,
                                 field_type |-> "file",
                                 value |-> logo_path[1]]) @@ mapping
    ELSE mapping

\* detected fields drawn for the mapper: name, label (empty without one),
\* field_type and selector
WEBSITE_URL == <<"w", "e", "b", "s", "i", "t", "e", "_", "u", "r", "l">>

FormFields ==
    {[name |-> WEBSITE_URL, label |-> <<>>, field_type |-> "url",
      selector |-> "#url"],
     [name |-> WEBSITE_URL,
      label |-> <<"D", "o", "m", "a", "i", "n", " ", "n", "a", "m", "e">>,
      field_type |-> "text", selector |-> "#url"],
     [name |-> <<"C", "o", "m", "p", "a", "n", "y", "-", "N", "a", "m", "e">>,
      label |-> <<>>, field_type |-> "text", selector |-> "#name"],
     [name |-> <<"t", "i", "t", "l", "e">>, label |-> <<>>, field_type |-> "text",
      selector |-> "#title"],
     [name |-> <<"l", "o", "g", "o">>, label |-> <<>>, field_type |-> "file",
      selector |-> "#logo"],
     [name |-> <<"l", "o", "g", "o", "_", "u", "r", "l">>, label |-> <<>>,
      field_type |-> "file", selector |-> "#logo"],
     [name |-> <<"i", "c", "o", "n">>, label |-> <<>>, field_type |-> "file",
      selector |-> "#icon"]}

\* form_result.fields, up to MaxFields of them
FieldLists == UNION { [1..n -> FormFields] : n \in 0..MaxFields }

\* a value for each product attribute drawn
ProductValues ==
    [name |-> "Acme", website_url |-> "https://x.io", tagline |-> "Fast"]

\* saas_data: any of the attributes drawn, absent, empty or with its value
SaasData ==
    UNION { { [k \in D |-> IF k \in E THEN "" ELSE ProductValues[k]] :
                E \in SUBSET D } :
            D \in SUBSET DOMAIN ProductValues }

\* logo_path: None, empty, or the uploaded file
LogoPaths == {None, Some(""), Some("uploads/logo.png")}

\* Step 4 of execute_submission: map the product data to the detected fields
step_map ==
    /\ det.pc = "idle"
    /\ \E fields \in FieldLists, saas_data \in SaasData, logo_path \in LogoPaths :
           det' = [pc |-> "mapped", fields |-> fields, saas_data |-> saas_data,
                   logo_path |-> logo_path,
                   field_mapping |-> map_saas_data_to_fields(fields, saas_data)]
    /\ UNCHANGED <<jobs, now, worker_vars, tasks, resp, ex, sessions>>

\* "Add logo if provided and there's a file field"
step_logo ==
    /\ det.pc = "mapped"
    /\ det' = [det EXCEPT !.pc = "fill",
                          !.field_mapping =
                              add_logo(det.field_mapping, det.fields, det.logo_path)]
    /\ UNCHANGED <<jobs, now, worker_vars, tasks, resp, ex, sessions>>

\* what happens to one fill: the element is filled, wait_for_selector gives
\* no element, or a Playwright call raises (timeout, detached element)
FillOutcomes == {"filled", "no_element", "raised"}

\* fill_field with no try/except around its Playwright calls
fill_field_without_handler(outcome) ==
    IF outcome = "raised" THEN None ELSE Some(outcome = "filled")

\* fill_field: Some(what it returns), None if an exception leaves it; its
\* except Exception returns False
fill_field(outcome) == Some(outcome = "filled")

\* BrowserAutomation.fill_form over the mapping, outcomes giving what happens
\* at each selector: Some(results), None if a fill_field raised
fill_form_results(mapping, outcomes) ==
    IF \E selector \in DOMAIN mapping : fill_field(outcomes[selector]) = None
    THEN None
    ELSE Some([selector \in DOMAIN mapping |->
                  fill_field(outcomes[selector])[1]])

\* Step 5: fill_form tries the mapped selectors and the mapping becomes
\* result["filled_fields"]; an exception leaves for the except block
step_fill ==
    /\ det.pc = "fill"
    /\ \E outcomes \in [DOMAIN det.field_mapping -> FillOutcomes] :
           LET fill_results == fill_form_results(det.field_mapping, outcomes)
           IN det' = IF fill_results = None
                     THEN [pc |-> "except", fields |-> det.fields,
                           saas_data |-> det.saas_data,
                           logo_path |-> det.logo_path,
                           field_mapping |-> det.field_mapping,
                           outcomes |-> outcomes]
                     ELSE [pc |-> "filled", fields |-> det.fields,
                           saas_data |-> det.saas_data,
                           logo_path |-> det.logo_path,
                           field_mapping |-> det.field_mapping,
                           outcomes |-> outcomes,
                           fill_results |-> fill_results[1],
                           filled_fields |-> det.field_mapping]
    /\ UNCHANGED <<jobs, now, worker_vars, tasks, resp, ex, sessions>>

\* "Check for CAPTCHA", the step after the fill
step_captcha ==
    /\ det.pc = "filled"
    /\ det' = [det EXCEPT !.pc = "captcha_check"]
    /\ UNCHANGED <<jobs, now, worker_vars, tasks, resp, ex, sessions>>

MapNext ==
    \/ step_map
    \/ step_logo
    \/ step_fill
    \/ step_captcha

MapSpec == Init /\ [][MapNext]_vars

\* --------------------------- RuleBasedFormDetector.detect_fields_from_html

\* the page as BeautifulSoup gives it: its elements in document order, each
\* with its tag and the attributes read (None when the attribute is absent),
\* and the text of the label elements by the id they are for
Elements ==
    [tag : {"input", "textarea", "select", "button"},
     id : {None, Some(""), Some("email")},
     name : {None, Some(""), Some("contact")},
     type : {None, Some("file")}]

Documents ==
    [elements : UNION { [1..n -> Elements] : n \in 0..MaxElements },
     labels : {<<>>, [i \in {"email"} |-> "Your e-mail"]}]

\* the selector built from the name even when the element has an id
selector_name_first(element) ==
    IF Truthy(element.name) THEN Some(<<"[name='", element.name[1], "']">>)
    ELSE IF Truthy(element.id) THEN Some(<<"#", element.id[1]>>)
    ELSE None

\* "Build selector": the pieces of the f-string, None for continue
selector_of(element) ==
    IF Truthy(element.id) THEN Some(<<"#", element.id[1]>>)
    ELSE IF Truthy(element.name) THEN Some(<<"[name='", element.name[1], "']">>)
    ELSE None

\* the FormField appended for an element with a selector
field_of(element, labels) ==
    [name |-> IF Truthy(element.name) THEN element.name[1]
              ELSE IF element.id # None THEN element.id[1] ELSE "",
     field_type |-> IF element.tag = "textarea" THEN "textarea"
                    ELSE IF element.tag = "select" THEN "select"
                    ELSE IF element.type # None THEN element.type[1]
                    ELSE "text",
     label |-> IF Truthy(element.id) /\ element.id[1] \in DOMAIN labels
               THEN Some(labels[element.id[1]]) ELSE None,
     selector |-> selector_of(element)[1]]

\* detect_fields_from_html: fields after the first k elements
RECURSIVE fields_after(_, _)
fields_after(document, k) ==
    IF k = 0 THEN <<>>
    ELSE LET element == document.elements[k]
             before == fields_after(document, k - 1)
         IN IF /\ element.tag \in {"input", "textarea", "select"}
               /\ selector_of(element) # None
            THEN Append(before, field_of(element, document.labels))
            ELSE before

detect_fields_from_html(document) ==
    fields_after(document, Len(document.elements))

\* detect_fields_from_html is called on a page
rule_detect ==
    /\ det.pc = "idle"
    /\ \E document \in Documents :
           det' = [pc |-> "parsed", document |-> document]
    /\ UNCHANGED <<jobs, now, worker_vars, tasks, resp, ex, sessions>>

\* and returns its fields
rule_detect_returns ==
    /\ det.pc = "parsed"
    /\ det' = [pc |-> "detected", document |-> det.document,
               fields |-> detect_fields_from_html(det.document)]
    /\ UNCHANGED <<jobs, now, worker_vars, tasks, resp, ex, sessions>>

RuleNext ==
    \/ rule_detect
    \/ rule_detect_returns

RuleSpec == Init /\ [][RuleNext]_vars

\* ------------------------------------------- BrowserAutomation.detect_form

\* the pages drawn for the fallback: no element, one element, or two inputs
PageDocuments ==
    [elements : {<<>>} \cup { <<element>> : element \in Elements }
                  \cup { <<a, b>> : a, b \in
                           [tag : {"input"}, id : {None, Some("email")},
                            name : {Some("contact")}, type : {None}] },
     labels : {<<>>, [i \in {"email"} |-> "Your e-mail"]}]

\* a field as the provider's answer describes it
ProviderField ==
    [name |-> "name", field_type |-> "text", label |-> None,
     selector |-> <<"#", "name">>]

\* the FormDetectionResult FormDetectionService.detect_form returns, from the
\* detection d: confidence in tenths
FormDetectionResult(d) ==
    [form_found |-> d.form_found, confidence |-> d.confidence,
     fields |-> [i \in 1..d.fields |-> ProviderField]]

\* the results of the provider detection
PrimaryResults == { FormDetectionResult(detection_of(json)) : json \in JsonTexts }

\* FormDetectionResult(url=url, form_found=True, fields=fields,
\* confidence=0.5)
RuleBasedResult(fields) ==
    [form_found |-> TRUE, confidence |-> 5, fields |-> fields]

\* except Exception: FormDetectionResult(url=url, form_found=False, fields=[])
DetectionFailed == [form_found |-> FALSE, confidence |-> 0, fields |-> <<>>]

\* the fallback tried only when the provider found no form
page_detect_form_unless_found(raises_at, result, document) ==
    IF raises_at \in {"screenshot", "html"} THEN DetectionFailed
    ELSE IF ~result.form_found
    THEN IF raises_at = "rule" THEN DetectionFailed
         ELSE LET fields == detect_fields_from_html(document)
              IN IF fields # <<>> THEN RuleBasedResult(fields) ELSE result
    ELSE result

\* BrowserAutomation.detect_form: result is what the provider detection
\* returned, document the page; raises_at names the call of the try block
\* that raises, "" for none
page_detect_form(raises_at, result, document) ==
    IF raises_at \in {"screenshot", "html"} THEN DetectionFailed
    ELSE IF ~result.form_found \/ Len(result.fields) = 0
    THEN IF raises_at = "rule" THEN DetectionFailed
         ELSE LET fields == detect_fields_from_html(document)
              IN IF fields # <<>> THEN RuleBasedResult(fields) ELSE result
    ELSE result

\* get_screenshot_base64 and get_page_html: the page is captured, or a
\* Playwright call raises
page_capture ==
    /\ det.pc = "idle"
    /\ \E raises_at \in {"", "screenshot", "html"}, document \in PageDocuments :
           det' = [pc |-> "captured", raises_at |-> raises_at,
                   document |-> document, primary |-> None]
    /\ UNCHANGED <<jobs, now, worker_vars, tasks, resp, ex, sessions>>

\* self.form_detector.detect_form returns its result; the rule-based
\* detector, if it is called after it, parses the page or raises
page_primary ==
    /\ det.pc = "captured"
    /\ det.raises_at = ""
    /\ \E result \in PrimaryResults, raises_at \in {"", "rule"} :
           /\ raises_at = "rule" =>
                 ~result.form_found \/ Len(result.fields) = 0
           /\ det' = [det EXCEPT !.pc = "analysed", !.raises_at = raises_at,
                                 !.primary = Some(result)]
    /\ UNCHANGED <<jobs, now, worker_vars, tasks, resp, ex, sessions>>

\* detect_form returns
page_detect_returns ==
    /\ \/ det.pc = "analysed"
       \/ det.pc = "captured" /\ det.raises_at # ""
    /\ det' = [pc |-> "page_detected", raises_at |-> det.raises_at,
               document |-> det.document, primary |-> det.primary,
               result |-> page_detect_form(det.raises_at,
                                           IF det.primary = None
                                           THEN DetectionFailed
                                           ELSE det.primary[1],
                                           det.document)]
    /\ UNCHANGED <<jobs, now, worker_vars, tasks, resp, ex, sessions>>

FallbackNext ==
    \/ page_capture
    \/ page_primary
    \/ page_detect_returns

FallbackSpec == Init /\ [][FallbackNext]_vars

\* --------------------------------------- FormDetectionService.__init__

\* an API key of the settings: not set, empty, or a key
ApiKeys == {None, Some(""), Some("key")}

\* the settings the constructor reads
ProviderSettings ==
    [LLM_PROVIDER : {"gemini", "groq", "anthropic", "openai", "mistral"},
     OPENAI_API_KEY : ApiKeys, ANTHROPIC_API_KEY : ApiKeys,
     GOOGLE_API_KEY : ApiKeys, GROQ_API_KEY : ApiKeys]

\* the provider FormDetectionService.__init__ constructs
provider_of(settings) ==
    IF settings.LLM_PROVIDER = "gemini" /\ Truthy(settings.GOOGLE_API_KEY)
    THEN "GeminiProvider"
    ELSE IF settings.LLM_PROVIDER = "groq" /\ Truthy(settings.GROQ_API_KEY)
    THEN "GroqProvider"
    ELSE IF /\ settings.LLM_PROVIDER = "anthropic"
            /\ Truthy(settings.ANTHROPIC_API_KEY)
    THEN "AnthropicProvider"
    ELSE IF Truthy(settings.OPENAI_API_KEY) THEN "OpenAIProvider"
    ELSE IF Truthy(settings.GOOGLE_API_KEY) THEN "GeminiProvider"
    ELSE IF Truthy(settings.GROQ_API_KEY) THEN "GroqProvider"
    ELSE "OpenAIProvider"

\* the settings are loaded from the environment
load_settings ==
    /\ det.pc = "idle"
    /\ \E settings \in ProviderSettings :
           det' = [pc |-> "settings", settings |-> settings]
    /\ UNCHANGED <<jobs, now, worker_vars, tasks, resp, ex, sessions>>

\* FormDetectionService()
construct_service ==
    /\ det.pc = "settings"
    /\ det' = [pc |-> "constructed", settings |-> det.settings,
               provider |-> provider_of(det.settings)]
    /\ UNCHANGED <<jobs, now, worker_vars, tasks, resp, ex, sessions>>

ProviderNext ==
    \/ load_settings
    \/ construct_service

ProviderSpec == Init /\ [][ProviderNext]_vars

\* ------------------------------------------------------ browser sessions

\* every run on the executor of the worker
executor_of_worker(x) == 0

\* the SubmissionExecutor a run calls: self.executor of the worker for its
\* own runs, a new SubmissionExecutor() for each run_single_submission; an
\* executor is named by the run that made it
executor_of(x) == x

\* a run is inside execute_submission
Executing(x) == sessions.runs[x].pc \in {"start", "page", "use", "stop"}

\* a run calls execute_submission; the worker loop awaits each of its runs
\* before the next, and is followed for NumJobs runs
execute_begins(x) ==
    /\ ~Executing(x)
    /\ x = 0 => sessions.done < NumJobs
    /\ x # 0 => sessions.runs[x].pc = "idle"
    /\ sessions' = [sessions EXCEPT !.runs[x] = [NoRun EXCEPT !.pc = "start"]]
    /\ UNCHANGED <<jobs, now, worker_vars, tasks, resp, ex, det>>

\* await self.browser.start(): a new browser and context replace the ones
\* the executor holds, which are not closed; raises is TRUE when the launch
\* raises, and then the executor holds what it held
session_start(x, raises) ==
    /\ sessions.runs[x].pc = "start"
    /\ sessions' =
         IF raises
         THEN [sessions EXCEPT !.runs[x].pc = "stop"]
         ELSE [sessions EXCEPT
                 !.created = @ + 1,
                 !.context[executor_of(x)] = Some(sessions.created + 1),
                 !.runs[x].own = Some(sessions.created + 1),
                 !.runs[x].pc = "page"]
    /\ UNCHANGED <<jobs, now, worker_vars, tasks, resp, ex, det>>

\* page = await self.browser.new_page(): a page of the context the executor
\* holds at this moment; the steps of the run work on it
session_new_page(x) ==
    /\ sessions.runs[x].pc = "page"
    /\ sessions' = [sessions EXCEPT
                      !.runs[x].page = sessions.context[executor_of(x)],
                      !.runs[x].pc = "use"]
    /\ UNCHANGED <<jobs, now, worker_vars, tasks, resp, ex, det>>

\* finally: await self.browser.stop(): closes the context and the browser
\* the executor holds at this moment, and keeps the references
session_stop(x) ==
    /\ sessions.runs[x].pc \in {"use", "stop"}
    /\ LET held == sessions.context[executor_of(x)]
       IN sessions' = [sessions EXCEPT
                         !.runs[x].closed = IF held = None THEN {} ELSE {held[1]},
                         !.runs[x].pc = "done",
                         !.done = IF x = 0 THEN @ + 1 ELSE @]
    /\ UNCHANGED <<jobs, now, worker_vars, tasks, resp, ex, det>>

SessionNext ==
    \/ \E x \in Runs : execute_begins(x)
    \/ \E x \in Runs, raises \in BOOLEAN : session_start(x, raises)
    \/ \E x \in Runs : session_new_page(x)
    \/ \E x \in Runs : session_stop(x)

\* the runs of the worker loop and of the tasks, on their executors
SessionSpec == Init /\ [][SessionNext]_vars

\* ================================================================ claims

InProgress == { j \in Jobs : jobs[j].status = IN_PROGRESS }

\* C1: the number of jobs stored IN_PROGRESS never exceeds max_concurrent.
C1_InProgressWithinCeiling == Cardinality(InProgress) <= max_concurrent

\* pipeline runs of job j in flight: the worker's and the background tasks'
WorkerRuns(j) == wpc = "running" /\ wjob = j
TaskRuns(r, j) == tasks[r].pc = "running" /\ Head(tasks[r].queue) = j
InFlight(j) ==
    (IF WorkerRuns(j) THEN 1 ELSE 0) + Cardinality({ r \in Requests : TaskRuns(r, j) })

\* C2: no job has more than one pipeline run in flight at the same time.
C2_OneExecutionPerJob == \A j \in Jobs : InFlight(j) <= 1

\* the step that ends the processing of job j after its pickup
WorkerEnds(j) == wjob = j /\ wpc \in {"running", "except"} /\ wjob' # j
TaskEnds(r, j) == TaskRuns(r, j) /\ tasks'[r].pc # "running"

\* C3: attempt_count never decreases, and the processing of a picked-up job,
\* ending in success, failure or crash, adds exactly one to it.
C3_AttemptCountedOnce ==
    [][\A j \in Jobs :
        /\ jobs'[j].attempt_count >= jobs[j].attempt_count
        /\ (WorkerEnds(j) \/ \E r \in Requests : TaskEnds(r, j))
              => jobs'[j].attempt_count = jobs[j].attempt_count + 1]_vars

\* the status claimed after a failed result: FAILED once the incremented
\* attempt_count has reached max_attempts, PENDING before
StatusAfterFailure(row) ==
    IF row.attempt_count >= row.max_attempts THEN FAILED ELSE PENDING

\* C4: after a failed pipeline result is recorded, the status is FAILED if
\* the incremented attempt_count has reached max_attempts, else PENDING.
C4_FailedResultStatus ==
    [][\A result \in PipelineResults : ~result.success =>
        /\ WorkerFinish(result)
              => jobs'[wjob].status = StatusAfterFailure(jobs'[wjob])
        /\ \A r \in Requests : TaskFinish(r, result)
              => LET j == Head(tasks[r].queue)
                 IN jobs'[j].status = StatusAfterFailure(jobs'[j])]_vars

\* C5: a job the worker marks IN_PROGRESS is stored PENDING with attempts
\* left at that moment.
C5_PickupOnlyEligible ==
    [][WorkerPickup =>
        LET j == Head(wbatch)
        IN /\ jobs[j].status = PENDING
           /\ jobs[j].attempt_count < jobs[j].max_attempts]_vars

\* C6: when an exception ends the processing of a job, the job is stored
\* FAILED with the exception's message.
C6_CrashRecordedFailed ==
    [][/\ (wpc = "except" /\ wpc' # "except")
            => /\ jobs'[wjob].status = FAILED
               /\ jobs'[wjob].error_message = Some(wexc)
       /\ \A r \in Requests : TaskRaise(r)
            => LET j == Head(tasks[r].queue)
               IN /\ jobs'[j].status = FAILED
                  /\ jobs'[j].error_message # None]_vars

\* C7: after the crash of a job, also when recording the crash fails, the
\* worker loop reaches its next poll.
C7_LoopSurvivesCrash == (wpc = "except") ~> (wpc = "poll")

\* a crash whose recording failed has reached start()'s handler
C7_Witness == wpc = "sleep60" /\ is_running

\* C8: a job the worker requeued after a failed attempt is not picked up
\* again before the cool-down has elapsed since last_attempt_at (stated for
\* the runs in which no request was made, so that only the worker wrote).
C8_RequeuedWaitsCoolDown ==
    [][(WorkerPickup /\ \A r \in Requests : tasks[r].pc = "unused") =>
        LET j == Head(wbatch)
        IN jobs[j].last_attempt_at # None
              => now - jobs[j].last_attempt_at[1] >= RETRY_AFTER]_vars

\* hours since the last attempt of a job that was attempted
Elapsed(j) == now - jobs[j].last_attempt_at[1]

FailedWithAttemptsLeft(j) ==
    jobs[j].status = FAILED /\ jobs[j].attempt_count < jobs[j].max_attempts

\* as the claim has it: never attempted, or at least the cool-down elapsed
EligibleAtLeast ==
    { j \in Jobs : /\ FailedWithAttemptsLeft(j)
                   /\ (jobs[j].last_attempt_at = None \/ Elapsed(j) >= RETRY_AFTER) }

\* as amended: never attempted, or more than the cool-down elapsed
EligibleMoreThan ==
    { j \in Jobs : /\ FailedWithAttemptsLeft(j)
                   /\ (jobs[j].last_attempt_at = None \/ Elapsed(j) > RETRY_AFTER) }

Returned == { resp.ids[i] : i \in 1..Len(resp.ids) }

\* C9 as claimed: the query returns only, and within its limit all, FAILED
\* jobs with attempts left that were never attempted or whose last attempt
\* is at least one hour old.
C9_RetryableAtLeastCoolDown ==
    resp.limit > 0 =>
        /\ Returned \subseteq EligibleAtLeast
        /\ Cardinality(EligibleAtLeast) <= resp.limit => EligibleAtLeast \subseteq Returned

\* C9 as amended: the same with a last attempt more than one hour old; a
\* job whose last attempt is exactly one hour old is not returned.
C9_RetryableAfterCoolDown ==
    resp.limit > 0 =>
        /\ Returned \subseteq EligibleMoreThan
        /\ Len(resp.ids) = Cardinality(Returned)
        /\ Cardinality(EligibleMoreThan) <= resp.limit => EligibleMoreThan \subseteq Returned
        /\ Cardinality(EligibleMoreThan) >= resp.limit => Len(resp.ids) = resp.limit

\* a query that returned a job attempted more than an hour ago and left out
\* one attempted exactly an hour ago
C9_Witness ==
    /\ resp.limit > 0
    /\ \E j \in Returned : jobs[j].last_attempt_at # None
    /\ \E j \in Jobs \ Returned : /\ FailedWithAttemptsLeft(j)
                                  /\ jobs[j].last_attempt_at # None
                                  /\ Elapsed(j) = RETRY_AFTER

\* C10: a FAILED job with attempts left whose cool-down has elapsed is
\* eventually run again by the running worker.
C10_RetryEventuallyRuns ==
    \A j \in Jobs :
        (is_running /\ j \in EligibleMoreThan) ~> (WorkerRuns(j) \/ ~is_running)

\* C11: IN_PROGRESS is committed before the pipeline run of a picked-up job
\* begins, so that no job has a pipeline run in flight while it is stored
\* PENDING.
C11_NoRunWhilePending ==
    \A j \in Jobs : InFlight(j) > 0 => jobs[j].status # PENDING

\* C12: a run that ends with the CAPTCHA error does not put the job back in
\* the queue of the automated scheduler: the worker does not store it PENDING.
C12_CaptchaNotRequeued ==
    [][\A result \in PipelineResults :
        (result.error = Some(CAPTCHA_ERROR) /\ WorkerFinish(result))
            => jobs'[wjob].status # PENDING]_vars

\* the error a failed run reports: "error" of execute_submission,
\* "error_message" of the demo simulator
AttemptError(result) ==
    IF result.error # None THEN result.error ELSE result.error_message

\* C13: after an attempt that ended in failure is recorded, in real or demo
\* mode, the job's error_message is set and is the error of that attempt.
C13_FailureMessageStored ==
    [][\A result \in PipelineResults : ~result.success =>
        /\ WorkerFinish(result)
              => /\ jobs'[wjob].error_message # None
                 /\ jobs'[wjob].error_message = AttemptError(result)
        /\ \A r \in Requests : TaskFinish(r, result)
              => LET j == Head(tasks[r].queue)
                 IN /\ jobs'[j].error_message # None
                    /\ jobs'[j].error_message = AttemptError(result)]_vars

\* ------------------------------------- the columns an attempt leaves behind

\* the queue's columns and what the outcome of an attempt is recorded in
OutcomeColumns ==
    {"status", "attempt_count", "max_attempts", "submitted_at",
     "screenshot_path", "detected_fields", "filled_fields"}

\* the worker loop alone over these columns
OutcomeSpec == Created(OutcomeColumns) /\ [][WorkerOnlyNext]_vars

\* the queue's columns and the attempt log
LogColumns == {"status", "attempt_count", "max_attempts", "submission_log"}

\* the worker loop and POST /submissions/{id}/run
RunNext ==
    \/ Tick
    \/ WorkerStart
    \/ WorkerNext
    \/ \E r \in Requests, j \in Jobs : run_submission(r, j)
    \/ TaskNext

LogSpec == Created(LogColumns) /\ [][RunNext]_vars

\* the column holds what the attempt produced: the produced snapshot, and
\* nothing of an earlier attempt where the attempt produced none
IsSnapshotOf(stored, produced) ==
    IF TruthyDict(produced) THEN stored = produced ELSE ~TruthyDict(stored)

\* C14: after an attempt is recorded, detected_fields and filled_fields are
\* the snapshots of that attempt, also when it aborted before detecting or
\* filling anything.
C14_SnapshotsOfLatestAttempt ==
    [][\A result \in PipelineResults : WorkerFinish(result) =>
        /\ IsSnapshotOf(jobs'[wjob].detected_fields, result.detected_fields)
        /\ IsSnapshotOf(jobs'[wjob].filled_fields, result.filled_fields)]_vars

\* C15: submission_log only grows by appending: a step that records an attempt
\* of a job appends exactly one record, carrying the time and the attempt
\* index, and no step changes or removes a record appended earlier.
C15_LogAppendOnly ==
    [][\A j \in Jobs :
        LET old == jobs[j].submission_log
            new == jobs'[j].submission_log
            recorded == \E result \in PipelineResults :
                          \/ wjob = j /\ WorkerFinish(result)
                          \/ \E r \in Requests :
                                TaskRuns(r, j) /\ TaskFinish(r, result)
        IN IF recorded
           THEN /\ new # <<>>
                /\ new = Append(old, new[Len(new)])
                /\ new[Len(new)].timestamp = now
                /\ new[Len(new)].attempt = Len(new)
           ELSE new = old]_vars

\* C16: after a result with success=true is recorded, the job is SUBMITTED,
\* submitted_at is set, and screenshot_path is the path of that run.
C16_SuccessRecorded ==
    [][\A result \in PipelineResults : (result.success /\ WorkerFinish(result)) =>
        /\ jobs'[wjob].status = SUBMITTED
        /\ jobs'[wjob].submitted_at = Some(now)
        /\ jobs'[wjob].screenshot_path = result.screenshot_path]_vars

\* a job submitted at its second attempt, the first having left its own
\* screenshot
C16_Witness ==
    \E j \in Jobs : /\ jobs[j].status = SUBMITTED
                    /\ jobs[j].attempt_count = 2
                    /\ jobs[j].submitted_at # None
                    /\ jobs[j].screenshot_path = SubmittedResult.screenshot_path

\* the call has left the try block: result is what it returns
Finished == ex.pc \in {"stop", "returned", "raised"}

\* navigation failed: no response, a response outside 2xx, or a timeout
NavigationFailed ==
    /\ ex.pc # "idle"
    /\ ex.response # None
    /\ \/ ex.response[1].kind \in {"none", "timeout"}
       \/ ex.response[1].kind = "response" /\ ex.response[1].status \notin 200..299

\* the steps of a run up to the navigation, and the release of the browser
StepsUpToNavigation == {"start", "new_page", "navigate", "stop"}

StepsOf == { ex.steps[i] : i \in 1..Len(ex.steps) }

\* C17: if the navigation fails, the result is success=false with the error
\* "Failed to load page", and no step after the navigation (screenshot, form
\* detection, fill, CAPTCHA check, submit, verification) is attempted.
C17_NavigationFailureAborts ==
    NavigationFailed =>
        /\ Finished
        /\ ~ex.result.success
        /\ ex.result.error = Some(LOAD_ERROR)
        /\ StepsOf \subseteq StepsUpToNavigation

\* a run that has returned after a 500 response
C17_Witness ==
    /\ ex.pc = "returned"
    /\ ex.response = Some([kind |-> "response", status |-> 500])

\* what execute_submission has opened and not released
Unreleased ==
    {"playwright" : x \in {ex.playwright} \cap {"started"}}
        \cup {"browser" : x \in {ex.browser} \cap {"open"}}
        \cup {"context" : x \in {ex.context} \cap {"open"}}

\* C18: when execute_submission is left, by a return or by an exception, on
\* any path, what the run had opened for its browser session is released.
C18_BrowserReleased ==
    ex.pc \in {"returned", "raised"} => Unreleased = {}

\* C19: a failed screenshot does not raise into the run: after a failed
\* initial capture the form detection is still attempted, and after a failed
\* final capture the run still has the outcome of the verification.
C19_ScreenshotBestEffort ==
    ex.pc = "returned" =>
        /\ "submission" \in ex.failed_captures => "detect_form" \in StepsOf
        /\ ("result" \in ex.failed_captures /\ ex.check[1].success # Some(FALSE))
              => ex.result.success


\* the provider call failed, or its answer is unparsable or malformed: no
\* connection, a status other than 200, a body that is not JSON or has no
\* message content, a JSON text that is no JSON document, is not an object,
\* or holds a value of the wrong type
DetectionFailure(response) ==
    \/ response.kind = "transport_error"
    \/ response.status # 200
    \/ response.body # "content"
    \/ response.json.type # "object"
    \/ response.json.form_found = "null"
    \/ response.json.confidence = "high"
    \/ response.json.fields \in {"[nameless]", "[1]", "7"}

\* C20: detect_form never raises, and a transport error, a non-200 status or
\* an unparsable or malformed provider response each give form_found false
\* with confidence 0.0.
C20_DetectFormNeverRaises ==
    det.pc = "returned" =>
        /\ ~det.result.raised
        /\ DetectionFailure(det.response) =>
               /\ det.result.form_found = FALSE
               /\ det.result.confidence = 0

\* detect_form has returned on a 200 response whose fenced JSON text is no
\* JSON document
C20_Witness ==
    /\ det.pc = "returned"
    /\ det.response.kind = "http"
    /\ det.response.status = 200
    /\ det.response.body = "content"
    /\ det.response.content = <<"fence", "json", "JSON", "fence">>
    /\ det.response.json.type = "invalid"
    /\ det.result.form_found = FALSE


\* the first detected field of type file
FirstFileField == det.fields[Min(FileFields(det.fields))]

\* C21: when the fill step is done with a supplied logo path and at least
\* one detected field of type file, filled_fields maps the selector of the
\* first such field to the logo path, whatever the heuristic mapper did.
C21_LogoForcedOnFirstFileField ==
    (/\ det.pc = "filled"
     /\ "filled_fields" \in DOMAIN det
     /\ Truthy(det.logo_path)
     /\ FileFields(det.fields) # {})
        => /\ FirstFileField.selector \in DOMAIN det.filled_fields
           /\ det.filled_fields[FirstFileField.selector].value = det.logo_path[1]

\* the fill step is done for a form whose only file field the mapper had
\* given the website URL, and the logo path has replaced it
C21_Witness ==
    /\ det.pc = "filled"
    /\ "filled_fields" \in DOMAIN det
    /\ Truthy(det.logo_path)
    /\ FileFields(det.fields) = {1}
    /\ "#logo" \in DOMAIN map_saas_data_to_fields(det.fields, det.saas_data)
    /\ map_saas_data_to_fields(det.fields, det.saas_data)["#logo"].value
           = ProductValues.website_url
    /\ det.filled_fields["#logo"].value = det.logo_path[1]


\* the positions of the input, textarea and select elements of the page that
\* have a non-empty id or name
Selectable ==
    { i \in 1..Len(det.document.elements) :
        /\ det.document.elements[i].tag \in {"input", "textarea", "select"}
        /\ \/ Truthy(det.document.elements[i].id)
           \/ Truthy(det.document.elements[i].name) }

\* the k-th of them in document order
NthSelectable(k) ==
    det.document.elements[
        CHOOSE i \in Selectable :
            Cardinality({ j \in Selectable : j <= i }) = k]

\* C22: the rule-based detector returns exactly one field for each input,
\* textarea or select element that has a non-empty id or name, in document
\* order, with a selector made of the id when there is one and of the name
\* otherwise; elements with neither give no field.
C22_OneFieldPerSelectableElement ==
    det.pc = "detected" =>
        /\ Len(det.fields) = Cardinality(Selectable)
        /\ \A k \in 1..Len(det.fields) :
               /\ det.fields[k].selector # <<>>
               /\ det.fields[k].selector =
                      IF Truthy(NthSelectable(k).id)
                      THEN <<"#", NthSelectable(k).id[1]>>
                      ELSE <<"[name='", NthSelectable(k).name[1], "']">>

\* the detector has returned for a page with an element without id or name
\* followed by one with both, and gave one field, selected by the id
C22_Witness ==
    /\ det.pc = "detected"
    /\ Len(det.document.elements) = 2
    /\ ~Truthy(det.document.elements[1].id)
    /\ ~Truthy(det.document.elements[1].name)
    /\ det.document.elements[2].tag = "input"
    /\ Truthy(det.document.elements[2].id)
    /\ Truthy(det.document.elements[2].name)
    /\ Len(det.fields) = 1
    /\ det.fields[1].selector = <<"#", "email">>


\* C23: once the mapper has run on product data with a non-empty
\* website_url, every detected field named "website_url" has an entry under
\* its selector whose value is that website_url.
C23_WebsiteUrlMapped ==
    (/\ det.pc = "mapped"
     /\ "website_url" \in DOMAIN det.saas_data
     /\ det.saas_data.website_url # "")
        => \A i \in 1..Len(det.fields) :
               det.fields[i].name = WEBSITE_URL =>
                   /\ det.fields[i].selector \in DOMAIN det.field_mapping
                   /\ det.field_mapping[det.fields[i].selector].value
                          = det.saas_data.website_url


\* the steps of the pipeline in the order of the claim; find_submit_button
\* is taken only when detection gave no submit selector
PipelineOrder ==
    <<"navigate", "screenshot", "detect_form", "map_saas_data_to_fields",
      "fill_form", "captcha_check", "find_submit_button", "click_submit",
      "check">>

Rank(step) == CHOOSE k \in 1..Len(PipelineOrder) : PipelineOrder[k] = step

\* the pipeline steps a run has taken so far, in the order taken
PipelineStepsTaken ==
    SelectSeq(ex.steps, LAMBDA step : \E k \in 1..Len(PipelineOrder) :
                                          PipelineOrder[k] = step)

\* the step was taken and did not abort the run, by what the step met
CompletedStep(step) ==
    /\ step \in StepsOf
    /\ step = "navigate" =>
           /\ ex.response[1].kind = "response"
           /\ ex.response[1].status >= 200
           /\ ex.response[1].status <= 299
    /\ step = "screenshot" => "submission" \notin ex.failed_captures
    /\ step = "detect_form" => ex.form_result[1].form_found
    /\ step = "captcha_check" => ex.captcha = Some(FALSE)
    /\ step = "click_submit" => ex.clicked = Some(TRUE)

\* C24: the pipeline steps of a run are taken in the order navigate,
\* screenshot, detect form, map, fill, CAPTCHA check, locate and click
\* submit, verify, and a step is taken only when every earlier step was
\* taken and did not abort; submit is never clicked after a failed
\* navigation, a missing form or a CAPTCHA.
C24_StepsInOrder ==
    ex.pc # "idle" =>
        /\ \A i, j \in 1..Len(PipelineStepsTaken) :
               i < j => Rank(PipelineStepsTaken[i]) < Rank(PipelineStepsTaken[j])
        /\ \A i \in 1..Len(PipelineStepsTaken) :
               \A k \in 1..(Rank(PipelineStepsTaken[i]) - 1) :
                   \/ PipelineOrder[k] = "find_submit_button"
                   \/ CompletedStep(PipelineOrder[k])
        /\ "find_submit_button" \in StepsOf =>
               ex.form_result[1].submit_button_selector = None
        /\ "click_submit" \in StepsOf =>
               /\ ex.response[1].kind = "response"
               /\ ex.response[1].status \in 200..299
               /\ ex.form_result[1].form_found
               /\ ex.captcha = Some(FALSE)

\* a run has returned after taking every step, the search for a submit
\* button included
C24_Witness ==
    /\ ex.pc = "returned"
    /\ PipelineStepsTaken = PipelineOrder
    /\ ex.result.success


\* the worker is inside a call of _process_submission
InProcessSubmission == wpc \in {"running", "except"}

\* C25: current_tasks stays between 0 and max_concurrent, and it is one
\* above its value before the call exactly while _process_submission runs:
\* every exit (submission missing, success, failed result, exception,
\* exception in the except block) puts it back.
C25_CounterRestored ==
    /\ current_tasks >= 0
    /\ current_tasks <= max_concurrent
    /\ current_tasks = IF InProcessSubmission THEN 1 ELSE 0

\* the except block of _process_submission has raised into start(), and the
\* counter is back at zero
C25_Witness ==
    /\ wpc = "sleep60"
    /\ current_tasks = 0
    /\ \E j \in Jobs : jobs[j] = NoRow


\* C26: no job ever has more attempts counted than max_attempts, whatever
\* the sequence of worker passes, immediate runs and retries.
C26_AttemptsWithinMax ==
    \A j \in Jobs : jobs[j].attempt_count <= jobs[j].max_attempts


\* C27: a job stored SUBMITTED stays SUBMITTED: no step of the worker or of
\* a run_single_submission task changes its status or starts another
\* execution of it (which would write IN_PROGRESS).
C27_SubmittedIsStable ==
    [][\A j \in Jobs :
          jobs[j].status = SUBMITTED => jobs'[j].status = SUBMITTED]_vars


\* the worker loop and the queued tasks keep going: every pipeline run
\* returns or raises
RunFairSpec ==
    Init /\ [][RunNext]_vars /\ WF_vars(WorkerNext) /\ WF_vars(TaskNext)

\* C28: a job stored IN_PROGRESS leaves that status again, every pipeline
\* run returning or raising.
C28_InProgressEnds ==
    \A j \in Jobs :
        (jobs[j].status = IN_PROGRESS) ~> (jobs[j].status # IN_PROGRESS)


\* C29: when the worker loop is started and not stopped again, every job
\* eventually is SUBMITTED or FAILED, every pipeline run returning or
\* raising.
C29_EveryJobSettles ==
    (<>[]is_running) =>
        \A j \in Jobs : <>(jobs[j].status \in {SUBMITTED, FAILED})


\* C30: in every state the attempt log of a job has attempt_count records,
\* numbered 1, 2, ..., attempt_count in order.
C30_LogMatchesAttemptCount ==
    \A j \in Jobs :
        /\ Len(jobs[j].submission_log) = jobs[j].attempt_count
        /\ \A i \in 1..Len(jobs[j].submission_log) :
               jobs[j].submission_log[i].attempt = i

\* C31: after stop() the worker starts no new job execution, not even for
\* the jobs left of the pass in progress: with is_running false no step of
\* the loop begins a _process_submission
C31_NoPickupAfterStop ==
    [][~is_running => ~(wpc = "next" /\ wpc' = "running")]_vars

\* C32: every result execute_submission returns has success = true exactly
\* when its error is None, and success = true only if click_submit returned
\* True in that run and check_submission_success did not report an error
\* phrase
C32_SuccessMeansClickedAndNoError ==
    ex.pc = "returned" =>
        /\ ex.result.success <=> ex.result.error = None
        /\ ex.result.success =>
              /\ ex.clicked = Some(TRUE)
              /\ ex.check # None
              /\ ex.check[1].success # Some(FALSE)

\* a run whose submit button find_submit_button found returned the soft
\* success
C32_Witness ==
    /\ ex.pc = "returned"
    /\ ex.result.success
    /\ ex.check[1].success = None
    /\ ex.form_result[1].submit_button_selector = None

\* the selectors of the mapping the run filled, or failed at
MappedSelectors == DOMAIN det.field_mapping

\* C33: a failed fill never aborts the run: once the fill step is over, the
\* results hold one entry for every mapped selector, True exactly for the
\* fills that worked, and the run is at the CAPTCHA check, not in the except
\* block, however many fills failed
C33_FailedFillDoesNotAbort ==
    det.pc \in {"filled", "captcha_check", "except"} =>
        /\ det.pc # "except"
        /\ DOMAIN det.fill_results = MappedSelectors
        /\ \A selector \in MappedSelectors :
              det.fill_results[selector] = (det.outcomes[selector] = "filled")

\* the run reached the CAPTCHA check after two fills, one that raised and one
\* that found no element
C33_Witness ==
    /\ det.pc = "captcha_check"
    /\ \E a, b \in MappedSelectors :
          /\ det.outcomes[a] = "raised"
          /\ det.outcomes[b] = "no_element"
          /\ ~det.fill_results[a]
          /\ ~det.fill_results[b]

\* the page the verification read holds a phrase of the list
HasPhrase(phrases) ==
    \E k \in 1..Len(phrases) : Contains(phrases[k], html_lower_of(ex.html[1]))

\* the outcome the claim gives a run that came to the verification
VerifiedOutcome ==
    /\ HasPhrase(success_phrases) => ex.result.success
    /\ ~HasPhrase(success_phrases) /\ HasPhrase(error_phrases) =>
          /\ ~ex.result.success
          /\ \E k \in 1..Len(error_phrases) :
                /\ Contains(error_phrases[k], html_lower_of(ex.html[1]))
                /\ ex.result.error = Some(error_messages[k])
    /\ ~HasPhrase(success_phrases) /\ ~HasPhrase(error_phrases) =>
          /\ ex.result.success
          /\ ex.result.logs[Len(ex.result.logs)].status = "unknown"

\* C34: the success phrases are checked before the error phrases: a run that
\* read a page with a success phrase returns success even if the page holds
\* an error phrase too, one that read a page with error phrases only returns
\* a failure with the message of an error phrase, and one that read a page
\* with neither returns the soft success, never a failure
C34_SuccessPhrasesFirst ==
    ex.pc = "returned" /\ ex.check # None => VerifiedOutcome

\* the provider detection left the form to the fallback
NoUsableForm(result) == ~result.form_found \/ Len(result.fields) = 0

\* what the fallback rule gives for the provider result and the page
FallbackOutcome(result, document) ==
    IF NoUsableForm(result) /\ detect_fields_from_html(document) # <<>>
    THEN RuleBasedResult(detect_fields_from_html(document))
    ELSE result

MatchingGroups(field) ==
    { k \in 1..Len(field_mapping) :
        \/ Contains(field_mapping[k].key, normalize(field.name))
        \/ Contains(field_mapping[k].key, normalize(field.label)) }

\* the value the first matching group alone gives the field: its first
\* non-empty attribute, None without a matching group or such an attribute
FirstGroupValue(field, saas_data) ==
    IF MatchingGroups(field) = {} THEN None
    ELSE first_value(field_mapping[Min(MatchingGroups(field))].saas_keys,
                     saas_data, 1)

\* the output built from FirstGroupValue, over the first k fields
RECURSIVE FirstGroupOutput(_, _, _)
FirstGroupOutput(fields, saas_data, k) ==
    IF k = 0 THEN <<>>
    ELSE LET field == fields[k]
             value == FirstGroupValue(field, saas_data)
             before == FirstGroupOutput(fields, saas_data, k - 1)
         IN IF value # None
            THEN (field.selector :> MappedEntry(field, value[1])) @@ before
            ELSE before

\* C36: the mapper gives each field the first non-empty attribute of the
\* first synonym group, in table order, whose key is in its normalized name
\* or label; no later group is consulted once a group has matched, and a
\* field without a matching group or a non-empty attribute in it has no
\* entry
C36_FirstMatchingGroupOnly ==
    det.pc = "mapped" =>
        det.field_mapping
            = FirstGroupOutput(det.fields, det.saas_data, Len(det.fields))

\* the API key each provider reads from the settings
KeyOf(settings) ==
    [GeminiProvider |-> settings.GOOGLE_API_KEY,
     GroqProvider |-> settings.GROQ_API_KEY,
     AnthropicProvider |-> settings.ANTHROPIC_API_KEY,
     OpenAIProvider |-> settings.OPENAI_API_KEY]

\* the providers whose key is configured
Configured(settings) ==
    { p \in DOMAIN KeyOf(settings) : Truthy(KeyOf(settings)[p]) }

FreeProviders == {"GeminiProvider", "GroqProvider"}

\* C37: whatever the preference and the four keys, the provider constructed
\* has its key configured whenever some provider has, is Gemini or Groq
\* whenever one of these has its key, and is a provider without a key (the
\* baseline) only when no key is configured
C37_ConfiguredProviderSelected ==
    det.pc = "constructed" =>
        /\ Configured(det.settings) # {} =>
              det.provider \in Configured(det.settings)
        /\ Configured(det.settings) \cap FreeProviders # {} =>
              det.provider \in FreeProviders

EligibleForPass(j) ==
    jobs[j].status = PENDING /\ jobs[j].attempt_count < jobs[j].max_attempts

\* the fetch of a pass: the batch is in the order of creation, holds eligible
\* jobs only, and every eligible job left out is newer than all of the batch
FetchesOldest ==
    wpc = "poll" /\ wpc' = "next" =>
        /\ \A k \in 1..Len(wbatch') : EligibleForPass(wbatch'[k])
        /\ \A k, l \in 1..Len(wbatch') : k < l => wbatch'[k] < wbatch'[l]
        /\ \A j \in Jobs :
              EligibleForPass(j) /\ (\A k \in 1..Len(wbatch') : wbatch'[k] # j)
                  => \A k \in 1..Len(wbatch') : wbatch'[k] < j

\* a pickup of the pass: the job started is the oldest of the batch not yet
\* started
StartsOldest ==
    wpc = "next" /\ wpc' = "running" =>
        /\ wjob' = Head(wbatch)
        /\ \A k \in 1..Len(wbatch') : wjob' < wbatch'[k]

\* C39: within one poll cycle the oldest eligible jobs are fetched and their
\* executions begin oldest first: no job of the pass is started before an
\* older job of the pass, and no eligible job is left out of the batch in
\* favour of a newer one
C39_OldestFirst == [][FetchesOldest /\ StartsOldest]_vars

\* the older job of a fetched batch of two is running and the newer one
\* waits for its turn in the same pass
C39_Witness ==
    /\ wpc = "running"
    /\ wjob = 1
    /\ wbatch = <<2>>

===========================================================================
